---- MODULE Spec2Model ----
(***************************************************************************)
(* The duplex real-time session relay of KratorAI:                         *)
(*   src/src/services/realtime_client.py      RealtimeClient (registry)    *)
(*   src/src/api/routes/voice_realtime.py     voice_realtime handler       *)
(*   src/src/api/routes/onboarding_realtime.py onboarding_realtime handler *)
(*   src/scripts/test_onboarding_tools.py     the patched client the       *)
(*                                            onboarding script runs with  *)
(* One step of the model is the code a coroutine runs between two awaits.  *)
(***************************************************************************)
EXTENDS Integers, Sequences, FiniteSets, TLC

\* ------------------------------------------------------------------ bounds
MaxUp == 2        \* upstream messages one session receives
MaxClient == 2    \* client events one session receives

SessionIds == {"s1", "s2"}

\* the sessions whose relay traffic is followed message by message
RelayIds == {"s1"}

\* which handler serves the connection, and which client object
\* get_realtime_client() hands it
Kinds == {"voice", "onboarding", "patched"}

NoCall == "none"

VARIABLES
    enabled,    \* RealtimeClient.enabled
    sessions,   \* RealtimeClient.sessions: the ids that have an entry
    kind,       \* per session: the handler (and client object) serving it
    pc,         \* per session: position of the handler coroutine
    c2s,        \* per session: position of client_to_server
    s2c,        \* per session: position of server_to_client
    cur,        \* per session: the event server_to_client is working on
    data,       \* per session: the event client_to_server is working on
    up,         \* per session: state of the upstream connection
    cl,         \* per session: state of the client channel
    upIn,       \* per session: the events listen has yielded
    toClient,   \* per session: messages written to the client channel
    toUp,       \* per session: messages written to the upstream connection
    acc,        \* per session: current_onboarding_update
    nClient,    \* per session: client events received so far
    nUp,        \* per session: upstream messages received so far
    creates,    \* per session: calls of create_session
    success,    \* per session: what the create_session call gave the handler
    teardowns,  \* per session: times the handler's finally block ran
    removals,   \* per session: executions of `del self.sessions[id]`
    escaped,    \* per session: an exception left close_session
    cleanup     \* position of RealtimeClient.cleanup and the ids it still has to close

vars == <<enabled, sessions, kind, pc, c2s, s2c, cur, data, up, cl, upIn, toClient,
          toUp, acc, nClient, nUp, creates, success, teardowns, removals, escaped,
          cleanup>>

\* ------------------------------------------------------------ data model
\* dict.get(key, default)
Get(obj, key, default) == IF key \in DOMAIN obj THEN obj[key] ELSE default

None == "None"
EmptyMap == [k \in {} |-> None]

\* current_onboarding_update as the handler creates it
InitialOnboardingUpdate ==
    [prefill_fields |-> EmptyMap,
     highlight_fields |-> <<>>,
     suggested_options |-> <<>>,
     page_completed |-> FALSE,
     missing_required_fields |-> <<>>]

\* the two tool schemas the onboarding handler declares
PROFILE_UPDATE_TOOL == "update_profile"
ONBOARDING_STATUS_TOOL == "update_onboarding_status"

\* --- a text is a sequence of chunks; str.lower() works chunk by chunk
Lower(chunk) ==
    CASE chunk = "Welcome aboard KratorAI" -> "welcome aboard kratorai"
      [] chunk = "WELCOME ABOARD KRATORAI" -> "welcome aboard kratorai"
      [] chunk = "Perfect." -> "perfect."
      [] chunk = "Should I proceed" -> "should i proceed"
      [] chunk = "Shall I proceed" -> "shall i proceed"
      [] OTHER -> chunk

\* `phrase in text.lower()`
ContainsLower(text, phrase) == \E i \in DOMAIN text : Lower(text[i]) = phrase

\* --- messages the relay itself writes to the client channel
ErrorMsg(text) == [type |-> "error", error |-> text]
SessionCreatedMsg(s) == [type |-> "session.created", sessionid |-> s]
OnboardingUpdateMsg(state) ==
    [type |-> "onboarding.update",
     prefill_fields |-> state.prefill_fields,
     highlight_fields |-> state.highlight_fields,
     suggested_options |-> state.suggested_options,
     page_completed |-> state.page_completed,
     missing_required_fields |-> state.missing_required_fields]
OnboardingCompleteMsg(transcript) ==
    [type |-> "onboarding.complete", final_summary |-> transcript]
ConversationCompleteMsg(text) ==
    [type |-> "conversation.complete", final_prompt |-> text]

\* --- messages written to the upstream connection
\* session_config of create_session: what the initial configuration carries
SessionConfig(instructions, voice, temperature) ==
    [type |-> "session.update",
     instructions |-> instructions,
     voice |-> voice,
     temperature |-> temperature]
AppendMsg(audio) == [type |-> "input_audio_buffer.append", audio |-> audio]
CommitMsg == [type |-> "input_audio_buffer.commit"]
ResponseCreateMsg == [type |-> "response.create"]
\* every acknowledgement carrying the id of the first call
AckCallIdFirst(call_id) == "call_1"

\* the call_id the acknowledgement carries
AckCallId(call_id) == call_id
ToolAckMsg(call_id) ==
    [type |-> "conversation.item.create",
     item |-> [type |-> "function_call_output",
               call_id |-> AckCallId(call_id),
               output |-> "{\"status\": \"success\"}"]]

\* --- upstream events
GenericEvent == [type |-> "response.audio.delta"]
ToolCallEvent(name, call_id, arguments) ==
    [type |-> "response.output_item.done",
     item |-> [type |-> "function_call", call_id |-> call_id, name |-> name,
               arguments |-> arguments]]
TranscriptDone(text) == [type |-> "response.audio_transcript.done", transcript |-> text]
ItemCompleted(text) ==
    [type |-> "conversation.item.completed",
     item |-> [content |-> <<[type |-> "text", text |-> text]>>]]

\* the text of a tool call's arguments: json.loads either yields the object
\* or raises JSONDecodeError
ArgsText(obj) == [parses |-> TRUE, value |-> obj]
BadArgsText == [parses |-> FALSE]

\* one message on the upstream wire: json.loads in listen yields the event
\* or raises JSONDecodeError
Wire(event) == [json |-> TRUE, event |-> event]
InvalidJson == [json |-> FALSE]

\* --- JSON types. The handler reads `item` as an object, `arguments` and
\* `transcript` as text and the parsed arguments as an object; an event one
\* of whose values has another JSON type carries that type under `mistyped`.
Mistyped(event, path, jsontype) ==
    [k \in DOMAIN event \cup {"mistyped"} |->
        IF k = "mistyped" THEN [path |-> path, jsontype |-> jsontype] ELSE event[k]]

\* the JSON type of the value at path, `expected` unless the event says otherwise
JsonType(e, path, expected) ==
    IF "mistyped" \in DOMAIN e /\ e.mistyped.path = path
    THEN e.mistyped.jsontype
    ELSE expected

\* --- client events
UnknownClientEvent == [type |-> "conversation.item.truncate"]
\* a message that is JSON but no object: `[]`
ArrayClientEvent == Mistyped([type |-> None], "data", "array")

\* `data` before the first receive_json has returned
NoClientEvent == [type |-> None]

\* ------------------------------------------------------ RealtimeClient
\* create_session(session_id, instructions, voice, temperature): the keywords
\* the signature takes. A call with any other keyword raises TypeError.
CreateSessionKeywords == {"session_id", "instructions", "voice", "temperature"}

\* the keywords each handler passes to create_session
CallKeywords(k) ==
    IF k = "voice"
    THEN {"session_id", "instructions", "voice", "temperature"}
    ELSE {"session_id", "instructions", "voice", "temperature", "tools"}

\* the patched client of the script is an AsyncMock: it takes any call
CreateSessionAccepts(k) ==
    k = "patched" \/ CallKeywords(k) \subseteq CreateSessionKeywords

\* realtime_client.enabled as the handler reads it
ClientEnabled(s) == IF kind[s] = "patched" THEN TRUE ELSE enabled

\* the entry stored before the configuration message is sent
RegistryStoredBeforeSend(sess, id, sent) == sess \cup {id}

\* the registry after create_session: the entry is stored only after the
\* configuration message was sent
RegistryAfterCreate(sess, id, sent) == IF sent THEN sess \cup {id} ELSE sess

\* every entry dropped when one session is closed
RegistryAfterCloseAll(sess, id, closed) == IF closed THEN {} ELSE sess

\* the registry after the try block of close_session: `del` runs only when
\* ws.close() returned
RegistryAfterClose(sess, id, closed) == IF closed THEN sess \ {id} ELSE sess

\* `except Exception` of close_session: what it catches
CloseCatches(exc) == exc \in {"ConnectionClosed", "KeyError", "Exception"}

\* the message put in front of what was written before
SendUpstreamFirst(s, msg) ==
    IF kind[s] = "patched" THEN toUp[s]
    ELSE IF s \notin sessions THEN toUp[s]
    ELSE IF up[s] = "open" THEN <<msg>> \o toUp[s]
    ELSE toUp[s]

\* send_audio_chunk / commit_audio / create_response: the upstream log after
\* the call. A write on a connection that is not open raises, and the
\* exception is swallowed.
SendUpstream(s, msg) ==
    IF kind[s] = "patched" THEN toUp[s]
    ELSE IF s \notin sessions THEN toUp[s]
    ELSE IF up[s] = "open" THEN Append(toUp[s], msg)
    ELSE toUp[s]

\* ------------------------------------------------------ state accumulator
SetField(map, field, value) ==
    [k \in DOMAIN map \cup {field} |-> IF k = field THEN value ELSE map[k]]

\* a key the status-update omits leaves the field as it was
ApplyToolKeeping(state, name, args) ==
    IF name = PROFILE_UPDATE_TOOL
    THEN [state EXCEPT !.prefill_fields =
              SetField(@, Get(args, "field_name", None), Get(args, "value", None))]
    ELSE IF name = ONBOARDING_STATUS_TOOL
    THEN [state EXCEPT
              !.page_completed = Get(args, "page_completed", @),
              !.highlight_fields = Get(args, "highlight_fields", @),
              !.missing_required_fields = Get(args, "missing_required_fields", @),
              !.suggested_options = Get(args, "suggested_options", @)]
    ELSE state

\* the first value written for a field name stays
ApplyToolFirstWins(state, name, args) ==
    IF name = PROFILE_UPDATE_TOOL
    THEN [state EXCEPT !.prefill_fields =
              IF Get(args, "field_name", None) \in DOMAIN @ THEN @
              ELSE SetField(@, Get(args, "field_name", None), Get(args, "value", None))]
    ELSE IF name = ONBOARDING_STATUS_TOOL
    THEN [state EXCEPT
              !.page_completed = Get(args, "page_completed", FALSE),
              !.highlight_fields = Get(args, "highlight_fields", <<>>),
              !.missing_required_fields = Get(args, "missing_required_fields", <<>>),
              !.suggested_options = Get(args, "suggested_options", <<>>)]
    ELSE state

\* a status-update starts from an empty prefill_fields map
ApplyToolClearing(state, name, args) ==
    IF name = PROFILE_UPDATE_TOOL
    THEN [state EXCEPT !.prefill_fields =
              SetField(@, Get(args, "field_name", None), Get(args, "value", None))]
    ELSE IF name = ONBOARDING_STATUS_TOOL
    THEN [state EXCEPT
              !.prefill_fields = EmptyMap,
              !.page_completed = Get(args, "page_completed", FALSE),
              !.highlight_fields = Get(args, "highlight_fields", <<>>),
              !.missing_required_fields = Get(args, "missing_required_fields", <<>>),
              !.suggested_options = Get(args, "suggested_options", <<>>)]
    ELSE state

\* a tool call of any other name stored as a field
ApplyToolAnyName(state, name, args) ==
    IF name = ONBOARDING_STATUS_TOOL
    THEN [state EXCEPT
              !.page_completed = Get(args, "page_completed", FALSE),
              !.highlight_fields = Get(args, "highlight_fields", <<>>),
              !.missing_required_fields = Get(args, "missing_required_fields", <<>>),
              !.suggested_options = Get(args, "suggested_options", <<>>)]
    ELSE [state EXCEPT !.prefill_fields =
              SetField(@, Get(args, "field_name", None), Get(args, "value", None))]

\* status lists appended to what an earlier status-update left
ApplyToolUnion(state, name, args) ==
    IF name = PROFILE_UPDATE_TOOL
    THEN [state EXCEPT !.prefill_fields =
              SetField(@, Get(args, "field_name", None), Get(args, "value", None))]
    ELSE IF name = ONBOARDING_STATUS_TOOL
    THEN [state EXCEPT
              !.page_completed = Get(args, "page_completed", FALSE),
              !.highlight_fields = @ \o Get(args, "highlight_fields", <<>>),
              !.missing_required_fields = @ \o Get(args, "missing_required_fields", <<>>),
              !.suggested_options = @ \o Get(args, "suggested_options", <<>>)]
    ELSE state

\* lines 176-190 of onboarding_realtime.py
ApplyTool(state, name, args) ==
    IF name = PROFILE_UPDATE_TOOL
    THEN [state EXCEPT !.prefill_fields =
              SetField(@, Get(args, "field_name", None), Get(args, "value", None))]
    ELSE IF name = ONBOARDING_STATUS_TOOL
    THEN [state EXCEPT
              !.page_completed = Get(args, "page_completed", FALSE),
              !.highlight_fields = Get(args, "highlight_fields", <<>>),
              !.missing_required_fields = Get(args, "missing_required_fields", <<>>),
              !.suggested_options = Get(args, "suggested_options", <<>>)]
    ELSE state

\* only calls of the two declared tools taken as tool calls
IsToolCallDeclared(e) ==
    /\ e.type = "response.output_item.done"
    /\ "item" \in DOMAIN e
    /\ Get(e.item, "type", None) = "function_call"
    /\ Get(e.item, "name", None) \in {PROFILE_UPDATE_TOOL, ONBOARDING_STATUS_TOOL}

IsToolCall(e) ==
    /\ e.type = "response.output_item.done"
    /\ "item" \in DOMAIN e
    /\ Get(e.item, "type", None) = "function_call"

\* only the fields the tool call changed, the others as the handler created them
SnapshotDelta(before, after) ==
    OnboardingUpdateMsg([f \in DOMAIN after |->
        IF after[f] = before[f] THEN InitialOnboardingUpdate[f] ELSE after[f]])

\* the snapshot sent after a tool call: built from the state after the mutation
Snapshot(before, after) == OnboardingUpdateMsg(after)

\* the exception the tool-call branch raises for event e, "none" if none:
\* item.get on a value that is no object, json.loads on a value that is no
\* text, json.loads on text that is not JSON, args.get on a parsed value that
\* is no object (reached only under the two tool names)
ToolCallException(e) ==
    IF e.type # "response.output_item.done" THEN "none"
    ELSE IF JsonType(e, "item", "object") # "object" THEN "AttributeError"
    ELSE IF ~IsToolCall(e) THEN "none"
    ELSE IF JsonType(e, "arguments", "string") # "string" THEN "TypeError"
    ELSE IF ~e.item.arguments.parses THEN "JSONDecodeError"
    ELSE IF /\ e.item.name \in {PROFILE_UPDATE_TOOL, ONBOARDING_STATUS_TOOL}
            /\ JsonType(e, "args", "object") # "object"
    THEN "AttributeError"
    ELSE "none"

\* the exception the completion check raises: transcript.lower() on a value
\* that is no text
TranscriptException(e) ==
    IF /\ e.type = "response.audio_transcript.done"
       /\ JsonType(e, "transcript", "string") # "string"
    THEN "AttributeError"
    ELSE "none"

\* the exception the body of the loop raises after it has forwarded event e
ClassifierException(e) ==
    IF ToolCallException(e) # "none" THEN ToolCallException(e)
    ELSE TranscriptException(e)

\* the exception reported to the client as the handler reports a setup failure
LoopExceptionReported(exc) == <<ErrorMsg(exc)>>

\* `except Exception as e: logger.error(...)` of server_to_client: what it
\* writes to the client
LoopExceptionWrites(exc) == <<>>

\* no except clause around json.loads
CaughtNowhere(exc) == FALSE

\* `except json.JSONDecodeError`: what the inner try catches; any other
\* exception reaches `except Exception` of server_to_client and ends the loop
Caught(exc) == exc = "JSONDecodeError"

\* the loop returns after any message of its own
AfterWriteReturns(parsed) == IF parsed THEN "ack" ELSE "done"

\* where server_to_client goes on after it wrote a message of its own: to the
\* acknowledgement after a snapshot, to the next event after a completion signal
AfterWrite(parsed) == IF parsed THEN "ack" ELSE "listen"

\* ------------------------------------------------------------------ Init
Init ==
    /\ enabled \in BOOLEAN
    /\ sessions = {}
    /\ kind = [s \in SessionIds |-> "none"]
    /\ pc = [s \in SessionIds |-> "none"]
    /\ c2s = [s \in SessionIds |-> "idle"]
    /\ s2c = [s \in SessionIds |-> "idle"]
    /\ cur = [s \in SessionIds |-> GenericEvent]
    /\ data = [s \in SessionIds |-> NoClientEvent]
    /\ up = [s \in SessionIds |-> "none"]
    /\ cl = [s \in SessionIds |-> "none"]
    /\ upIn = [s \in SessionIds |-> <<>>]
    /\ toClient = [s \in SessionIds |-> <<>>]
    /\ toUp = [s \in SessionIds |-> <<>>]
    /\ acc = [s \in SessionIds |-> InitialOnboardingUpdate]
    /\ nClient = [s \in SessionIds |-> 0]
    /\ nUp = [s \in SessionIds |-> 0]
    /\ creates = [s \in SessionIds |-> 0]
    /\ success = [s \in SessionIds |-> "unset"]
    /\ teardowns = [s \in SessionIds |-> 0]
    /\ removals = [s \in SessionIds |-> 0]
    /\ escaped = [s \in SessionIds |-> FALSE]
    /\ cleanup = [pc |-> "idle", todo |-> {}, id |-> NoCall, called |-> {}]

relayVars == <<c2s, s2c, cur, data, upIn, acc, nClient, nUp>>
closeVars == <<teardowns, removals, escaped, cleanup>>

\* --------------------------------------------------------------- setup
\* websocket.accept(), session id, get_realtime_client()
Accept(s, k) ==
    /\ pc[s] = "none"
    /\ kind' = [kind EXCEPT ![s] = k]
    /\ pc' = [pc EXCEPT ![s] = "accepted"]
    /\ cl' = [cl EXCEPT ![s] = "open"]
    /\ UNCHANGED <<enabled, sessions, up, toClient, toUp, creates, success, relayVars, closeVars>>

\* `if not realtime_client.enabled`: error, close, return (outside the try)
NotConfigured(s) ==
    /\ pc[s] = "accepted"
    /\ ~ClientEnabled(s)
    /\ toClient' = [toClient EXCEPT ![s] = Append(@, ErrorMsg("Realtime API not configured"))]
    /\ cl' = [cl EXCEPT ![s] = "closed"]
    /\ pc' = [pc EXCEPT ![s] = "closed"]
    /\ UNCHANGED <<enabled, sessions, kind, up, toUp, creates, success, relayVars, closeVars>>

\* session.created written once more when the loops start
SetupSucceededTwice(s) ==
    /\ toClient' = [toClient EXCEPT ![s] = @ \o <<SessionCreatedMsg(s), SessionCreatedMsg(s)>>]
    /\ pc' = [pc EXCEPT ![s] = "relay"]
    /\ c2s' = [c2s EXCEPT ![s] = "recv"]
    /\ s2c' = [s2c EXCEPT ![s] = "start"]
    /\ UNCHANGED cl

\* what the handler does once create_session has returned success
SetupSucceeded(s) ==
    /\ toClient' = [toClient EXCEPT ![s] = Append(@, SessionCreatedMsg(s))]
    /\ pc' = [pc EXCEPT ![s] = "relay"]
    /\ c2s' = [c2s EXCEPT ![s] = "recv"]
    /\ s2c' = [s2c EXCEPT ![s] = "start"]
    /\ UNCHANGED cl

\* the error branch without its `return`: the handler goes on as after success
SetupFailedFallsThrough(s, text) ==
    /\ toClient' = [toClient EXCEPT ![s] = @ \o <<ErrorMsg(text), SessionCreatedMsg(s)>>]
    /\ cl' = [cl EXCEPT ![s] = "closed"]
    /\ pc' = [pc EXCEPT ![s] = "relay"]
    /\ c2s' = [c2s EXCEPT ![s] = "recv"]
    /\ s2c' = [s2c EXCEPT ![s] = "start"]

\* what the handler does once create_session has returned failure:
\* error, websocket.close(), return into the finally block
SetupFailed(s, text) ==
    /\ toClient' = [toClient EXCEPT ![s] = Append(@, ErrorMsg(text))]
    /\ cl' = [cl EXCEPT ![s] = "closed"]
    /\ pc' = [pc EXCEPT ![s] = "finally"]
    /\ UNCHANGED <<c2s, s2c>>

\* the call of create_session raises TypeError: `except Exception` of the
\* handler sends the error text, then the finally block runs
CreateRaises(s) ==
    /\ pc[s] = "accepted"
    /\ ClientEnabled(s)
    /\ ~CreateSessionAccepts(kind[s])
    /\ creates' = [creates EXCEPT ![s] = @ + 1]
    /\ success' = [success EXCEPT ![s] = "raised"]
    /\ toClient' = [toClient EXCEPT ![s] = Append(@, ErrorMsg("TypeError"))]
    /\ pc' = [pc EXCEPT ![s] = "finally"]
    /\ UNCHANGED <<enabled, sessions, kind, up, cl, toUp, relayVars, closeVars>>

\* create_session up to `await websockets.connect(...)`
CreateConnect(s, connected) ==
    /\ pc[s] = "accepted"
    /\ ClientEnabled(s)
    /\ kind[s] = "voice"
    /\ CreateSessionAccepts(kind[s])
    /\ creates' = [creates EXCEPT ![s] = @ + 1]
    /\ IF connected
       THEN /\ up' = [up EXCEPT ![s] = "open"]
            /\ pc' = [pc EXCEPT ![s] = "configuring"]
            /\ UNCHANGED <<toClient, cl, c2s, s2c, success>>
       ELSE /\ SetupFailed(s, "Failed to create realtime session")
            /\ success' = [success EXCEPT ![s] = "false"]
            /\ UNCHANGED up
    /\ UNCHANGED <<enabled, sessions, kind, toUp, cur, upIn, acc, nClient, data, nUp, closeVars>>

\* create_session from `await ws.send(json.dumps(session_config))` to its
\* return, and the handler's reaction. The write fails iff the connection
\* broke after it was opened.
CreateConfigure(s) ==
    /\ pc[s] = "configuring"
    /\ LET sent == up[s] = "open" IN
       /\ sessions' = RegistryAfterCreate(sessions, s, sent)
       /\ success' = [success EXCEPT ![s] = IF sent THEN "true" ELSE "false"]
       /\ IF sent
          THEN /\ toUp' = [toUp EXCEPT ![s] = Append(@, SessionConfig("instructions", "alloy", "0.7"))]
               /\ SetupSucceeded(s)
          ELSE /\ SetupFailed(s, "Failed to create realtime session")
               /\ UNCHANGED toUp
    /\ UNCHANGED <<enabled, kind, up, creates, cur, upIn, acc, nClient, data, nUp, closeVars>>

\* the patched client: create_session is an AsyncMock and returns a truthy
\* value; mock_listen is the upstream stream
CreatePatched(s) ==
    /\ pc[s] = "accepted"
    /\ kind[s] = "patched"
    /\ creates' = [creates EXCEPT ![s] = @ + 1]
    /\ up' = [up EXCEPT ![s] = "open"]
    /\ success' = [success EXCEPT ![s] = "true"]
    /\ SetupSucceeded(s)
    /\ UNCHANGED <<enabled, sessions, kind, toUp, cur, upIn, acc, nClient, data, nUp, closeVars>>

\* ------------------------------------------------- client_to_server loop
\* commit_audio without the create_response that follows it
ClientDispatchCommitOnly(ev) ==
    IF ev.type = "input_audio_buffer.append"
    THEN [first |-> <<AppendMsg(Get(ev, "audio", ""))>>, then |-> FALSE]
    ELSE IF ev.type = "input_audio_buffer.commit"
    THEN [first |-> <<CommitMsg>>, then |-> FALSE]
    ELSE IF ev.type = "response.create"
    THEN [first |-> <<ResponseCreateMsg>>, then |-> FALSE]
    ELSE [first |-> <<>>, then |-> FALSE]

\* the upstream messages one client event leads to at once, and whether
\* create_response is still to come (commit_audio, then create_response)
ClientDispatch(ev) ==
    IF ev.type = "input_audio_buffer.append"
    THEN [first |-> <<AppendMsg(Get(ev, "audio", ""))>>, then |-> FALSE]
    ELSE IF ev.type = "input_audio_buffer.commit"
    THEN [first |-> <<CommitMsg>>, then |-> TRUE]
    ELSE IF ev.type = "response.create"
    THEN [first |-> <<ResponseCreateMsg>>, then |-> FALSE]
    ELSE [first |-> <<>>, then |-> FALSE]

\* the failed write of the client's methods raised into the loop
ClientExceptionOnWrite(ev) ==
    IF JsonType(ev, "data", "object") # "object" THEN "AttributeError"
    ELSE IF /\ ClientDispatch(ev).first # <<>>
            /\ \E s \in SessionIds : pc[s] = "relay" /\ up[s] # "open"
    THEN "ConnectionClosed"
    ELSE "none"

\* the exception the body of client_to_server raises for event ev: data.get
\* on a value that is no object
ClientException(ev) ==
    IF JsonType(ev, "data", "object") # "object" THEN "AttributeError" ELSE "none"

\* `data = await websocket.receive_json()` and the branch taken, up to the
\* next await; an exception reaches `except Exception` and ends the loop
C2SRecv(s, ev) ==
    /\ pc[s] = "relay"
    /\ c2s[s] = "recv"
    /\ cl[s] = "open"
    /\ nClient[s] < MaxClient
    /\ nClient' = [nClient EXCEPT ![s] = @ + 1]
    /\ data' = [data EXCEPT ![s] = ev]
    /\ IF ClientException(ev) # "none"
       THEN /\ c2s' = [c2s EXCEPT ![s] = "done"]
            /\ UNCHANGED toUp
       ELSE LET d == ClientDispatch(ev) IN
            /\ toUp' = [toUp EXCEPT ![s] =
                          IF d.first = <<>> THEN @ ELSE SendUpstream(s, d.first[1])]
            /\ c2s' = [c2s EXCEPT ![s] = IF d.then THEN "resp" ELSE "recv"]
    /\ UNCHANGED <<enabled, sessions, kind, pc, s2c, cur, up, cl, upIn, toClient,
                   acc, nUp, creates, success, closeVars>>

\* create_response after commit_audio
C2SResp(s) ==
    /\ pc[s] = "relay"
    /\ c2s[s] = "resp"
    /\ toUp' = [toUp EXCEPT ![s] = SendUpstream(s, ResponseCreateMsg)]
    /\ c2s' = [c2s EXCEPT ![s] = "recv"]
    /\ UNCHANGED <<enabled, sessions, kind, pc, s2c, cur, up, cl, upIn, toClient,
                   acc, nClient, data, nUp, creates, success, closeVars>>

\* receive_json raises WebSocketDisconnect: the loop returns
C2SDisconnect(s) ==
    /\ pc[s] = "relay"
    /\ c2s[s] = "recv"
    /\ cl[s] # "open"
    /\ c2s' = [c2s EXCEPT ![s] = "done"]
    /\ UNCHANGED <<enabled, sessions, kind, pc, s2c, cur, up, cl, upIn, toClient,
                   toUp, acc, nClient, data, nUp, creates, success, closeVars>>

\* ------------------------------------------------- server_to_client loop
\* listen reading from the connection without looking the id up
ListenStartsAlways(s) == TRUE

\* listen(session_id): `if session_id not in self.sessions: return`
ListenStarts(s) == kind[s] = "patched" \/ s \in sessions

S2CStart(s) ==
    /\ pc[s] = "relay"
    /\ s2c[s] = "start"
    /\ s2c' = [s2c EXCEPT ![s] = IF ListenStarts(s) THEN "listen" ELSE "done"]
    /\ UNCHANGED <<enabled, sessions, kind, pc, c2s, cur, up, cl, upIn, toClient,
                   toUp, acc, nClient, data, nUp, creates, success, closeVars>>

\* tool-call events consumed by the classifier instead of being forwarded
ForwardExceptToolCalls(e) == IF IsToolCall(e) THEN <<>> ELSE <<e>>

\* what the loop writes to the client when listen yields event e
Forward(e) == <<e>>

\* the stream given up at the first message that is not JSON
AfterInvalidJsonEnds == "done"

\* listen after `except json.JSONDecodeError`: `continue` with the next message
AfterInvalidJson == "listen"

\* one message arrives: json.loads in listen, then
\* `await websocket.send_json(event)` in the loop
S2CRecv(s, m) ==
    /\ pc[s] = "relay"
    /\ s2c[s] = "listen"
    /\ up[s] = "open"
    /\ nUp[s] < MaxUp
    /\ kind[s] = "patched" => m.json
    /\ nUp' = [nUp EXCEPT ![s] = @ + 1]
    /\ IF ~m.json
       THEN /\ s2c' = [s2c EXCEPT ![s] = AfterInvalidJson]
            /\ UNCHANGED <<upIn, toClient, cur>>
       ELSE /\ upIn' = [upIn EXCEPT ![s] = Append(@, m.event)]
            /\ IF cl[s] = "open"
               THEN /\ toClient' = [toClient EXCEPT ![s] = @ \o Forward(m.event)]
                    /\ s2c' = [s2c EXCEPT ![s] = "classify"]
                    /\ cur' = [cur EXCEPT ![s] = m.event]
               ELSE /\ s2c' = [s2c EXCEPT ![s] = "done"]
                    /\ UNCHANGED <<toClient, cur>>
    /\ UNCHANGED <<enabled, sessions, kind, pc, c2s, up, cl, toUp, acc, nClient, data,
                   creates, success, closeVars>>

\* the stream ends (ConnectionClosed, or mock_listen is exhausted)
S2CEnd(s) ==
    /\ pc[s] = "relay"
    /\ s2c[s] = "listen"
    /\ up[s] # "open"
    /\ s2c' = [s2c EXCEPT ![s] = "done"]
    /\ UNCHANGED <<enabled, sessions, kind, pc, c2s, cur, up, cl, upIn, toClient,
                   toUp, acc, nClient, data, nUp, creates, success, closeVars>>

\* voice_realtime: the completion check on conversation.item.completed
VoiceSignals(e) ==
    IF e.type = "conversation.item.completed"
    THEN LET c == e.item.content[1] IN
         IF c.type = "text"
            /\ (ContainsLower(c.text, "should i proceed")
                \/ ContainsLower(c.text, "shall i proceed"))
         THEN <<ConversationCompleteMsg(c.text)>>
         ELSE <<>>
    ELSE <<>>

\* the phrase compared with the transcript as it was spoken
OnboardingSignalsCaseSensitive(e) ==
    IF e.type = "response.audio_transcript.done"
       /\ (\E i \in DOMAIN Get(e, "transcript", <<>>) :
               Get(e, "transcript", <<>>)[i] = "welcome aboard kratorai")
    THEN <<OnboardingCompleteMsg(Get(e, "transcript", <<>>))>>
    ELSE <<>>

\* the completion check on the transcript of an event of any type
OnboardingSignalsAnyType(e) ==
    IF ContainsLower(Get(e, "transcript", <<>>), "welcome aboard kratorai")
    THEN <<OnboardingCompleteMsg(Get(e, "transcript", <<>>))>>
    ELSE <<>>

\* the completion check skipped once onboarding.complete has been written
OnboardingSignalsOnce(e) ==
    IF /\ e.type = "response.audio_transcript.done"
       /\ ContainsLower(Get(e, "transcript", <<>>), "welcome aboard kratorai")
       /\ \A s \in SessionIds : \A i \in DOMAIN toClient[s] :
              toClient[s][i].type # "onboarding.complete"
    THEN <<OnboardingCompleteMsg(Get(e, "transcript", <<>>))>>
    ELSE <<>>

\* the completion check answering every finalized transcript twice
OnboardingSignalsTwice(e) ==
    IF e.type = "response.audio_transcript.done"
       /\ ContainsLower(Get(e, "transcript", <<>>), "welcome aboard kratorai")
    THEN <<OnboardingCompleteMsg(Get(e, "transcript", <<>>)),
           OnboardingCompleteMsg(Get(e, "transcript", <<>>))>>
    ELSE <<>>

\* onboarding_realtime: the completion check on a finalized transcript
OnboardingSignals(e) ==
    IF e.type = "response.audio_transcript.done"
       /\ ContainsLower(Get(e, "transcript", <<>>), "welcome aboard kratorai")
    THEN <<OnboardingCompleteMsg(Get(e, "transcript", <<>>))>>
    ELSE <<>>

\* the classifier, from the forwarded event to the next await after a write
S2CClassify(s) ==
    /\ pc[s] = "relay"
    /\ s2c[s] = "classify"
    /\ LET e == cur[s]
           exc == IF kind[s] = "voice" THEN "none" ELSE ClassifierException(e)
           raised == exc # "none" /\ ~Caught(exc)
           tool == kind[s] # "voice" /\ ~raised /\ IsToolCall(e)
           parsed == tool /\ exc = "none"
           after == IF parsed
                    THEN ApplyTool(acc[s], e.item.name, e.item.arguments.value)
                    ELSE acc[s]
           outs == IF kind[s] = "voice" THEN VoiceSignals(e)
                   ELSE IF parsed THEN <<Snapshot(acc[s], after)>>
                   ELSE IF tool THEN <<>>
                   ELSE OnboardingSignals(e)
       IN
       /\ acc' = [acc EXCEPT ![s] = after]
       /\ IF raised
          THEN /\ s2c' = [s2c EXCEPT ![s] = "done"]
               /\ toClient' = [toClient EXCEPT ![s] = @ \o LoopExceptionWrites(exc)]
          ELSE IF outs = <<>>
          THEN /\ s2c' = [s2c EXCEPT ![s] = "listen"]
               /\ UNCHANGED toClient
          ELSE IF cl[s] = "open"
          THEN /\ toClient' = [toClient EXCEPT ![s] = @ \o outs]
               /\ s2c' = [s2c EXCEPT ![s] = AfterWrite(parsed)]
          ELSE /\ s2c' = [s2c EXCEPT ![s] = "done"]
               /\ UNCHANGED toClient
    /\ UNCHANGED <<enabled, sessions, kind, pc, c2s, cur, up, cl, upIn, toUp,
                   nClient, data, nUp, creates, success, closeVars>>

\* `ws = realtime_client.sessions.get(session_id)`
AckConnection(s) == kind[s] = "patched" \/ s \in sessions

\* `await ws.send(...)` on that connection returns (the mock connection of
\* the patched client takes every write)
AckWritable(s) == kind[s] = "patched" \/ up[s] = "open"

\* the acknowledgement to upstream; a write on a connection that is not open
\* raises and ends the loop
S2CAck(s) ==
    /\ pc[s] = "relay"
    /\ s2c[s] = "ack"
    /\ IF ~AckConnection(s)
       THEN /\ s2c' = [s2c EXCEPT ![s] = "listen"]
            /\ UNCHANGED toUp
       ELSE IF AckWritable(s)
       THEN /\ toUp' = [toUp EXCEPT ![s] = Append(@, ToolAckMsg(cur[s].item.call_id))]
            /\ s2c' = [s2c EXCEPT ![s] = "listen"]
       ELSE /\ s2c' = [s2c EXCEPT ![s] = "done"]
            /\ UNCHANGED toUp
    /\ UNCHANGED <<enabled, sessions, kind, pc, c2s, cur, up, cl, upIn, toClient,
                   acc, nClient, data, nUp, creates, success, closeVars>>

\* ------------------------------------------------------------- teardown
\* the handler going on when the first loop has returned, the other running
GatherReturnsFirst(s) == c2s[s] = "done" \/ s2c[s] = "done"

\* asyncio.gather(client_to_server(), server_to_client()) returns
GatherReturns(s) == c2s[s] = "done" /\ s2c[s] = "done"

Gather(s) ==
    /\ pc[s] = "relay"
    /\ GatherReturns(s)
    /\ pc' = [pc EXCEPT ![s] = "finally"]
    /\ UNCHANGED <<enabled, sessions, kind, up, cl, toClient, toUp, creates, success,
                   relayVars, closeVars>>

\* close_session up to `await ws.close()`: TRUE when the call goes on to close
\* the connection, FALSE when it returns at once
CloseProceeds(s) == kind[s] # "patched" /\ s \in sessions

\* ws.close() may raise only on a connection the peer has dropped
CloseOutcomes(s) == IF up[s] = "broken" THEN BOOLEAN ELSE {TRUE}

\* the exception raised inside the try block of close_session, if any
CloseException(s, closed) ==
    IF ~closed THEN "ConnectionClosed"
    ELSE IF s \notin sessions THEN "KeyError"
    ELSE "none"

\* the finally block: close_session(session_id), then websocket.close()
Finally(s) ==
    /\ pc[s] = "finally"
    /\ teardowns' = [teardowns EXCEPT ![s] = @ + 1]
    /\ IF CloseProceeds(s)
       THEN /\ pc' = [pc EXCEPT ![s] = "closing"]
            /\ UNCHANGED cl
       ELSE /\ pc' = [pc EXCEPT ![s] = "closed"]
            /\ cl' = [cl EXCEPT ![s] = "closed"]
    /\ UNCHANGED <<enabled, sessions, kind, up, toClient, toUp, creates, success, relayVars,
                   removals, escaped, cleanup>>

\* the rest of close_session for one caller: the registry, the connection,
\* the removal count and whether an exception leaves the call
CloseFinish(s, closed) ==
    LET exc == CloseException(s, closed) IN
    /\ sessions' = RegistryAfterClose(sessions, s, closed)
    /\ up' = [up EXCEPT ![s] = IF closed THEN "closed" ELSE @]
    /\ removals' = [removals EXCEPT ![s] = IF exc = "none" THEN @ + 1 ELSE @]
    /\ escaped' = [escaped EXCEPT ![s] = @ \/ (exc # "none" /\ ~CloseCatches(exc))]

\* ws.close() returns or raises in the handler's close_session; then
\* websocket.close()
FinallyClose(s, closed) ==
    /\ pc[s] = "closing"
    /\ closed \in CloseOutcomes(s)
    /\ CloseFinish(s, closed)
    /\ pc' = [pc EXCEPT ![s] = "closed"]
    /\ cl' = [cl EXCEPT ![s] = "closed"]
    /\ UNCHANGED <<enabled, kind, toClient, toUp, creates, success, relayVars, teardowns, cleanup>>

\* --------------------------------------------------- RealtimeClient.cleanup
\* session_ids = list(self.sessions.keys())
CleanupStart ==
    /\ cleanup.pc = "idle"
    /\ cleanup' = [pc |-> "loop", todo |-> sessions, id |-> NoCall, called |-> {}]
    /\ UNCHANGED <<enabled, sessions, kind, pc, up, cl, toClient, toUp, creates, success,
                   relayVars, teardowns, removals, escaped>>

\* the next close_session(session_id) of the loop, up to `await ws.close()`
CleanupCall(s) ==
    /\ cleanup.pc = "loop"
    /\ s \in cleanup.todo
    /\ cleanup' = IF s \in sessions
                  THEN [pc |-> "closing", todo |-> cleanup.todo \ {s}, id |-> s,
                        called |-> cleanup.called \cup {s}]
                  ELSE [cleanup EXCEPT !.todo = @ \ {s}, !.called = @ \cup {s}]
    /\ UNCHANGED <<enabled, sessions, kind, pc, up, cl, toClient, toUp, creates, success,
                   relayVars, teardowns, removals, escaped>>

CleanupClose(closed) ==
    /\ cleanup.pc = "closing"
    /\ closed \in CloseOutcomes(cleanup.id)
    /\ CloseFinish(cleanup.id, closed)
    /\ cleanup' = [cleanup EXCEPT !.pc = "loop", !.id = NoCall]
    /\ UNCHANGED <<enabled, kind, pc, cl, toClient, toUp, creates, success, relayVars, teardowns>>

CleanupReturn ==
    /\ cleanup.pc = "loop"
    /\ cleanup.todo = {}
    /\ cleanup' = [cleanup EXCEPT !.pc = "done"]
    /\ UNCHANGED <<enabled, sessions, kind, pc, up, cl, toClient, toUp, creates, success,
                   relayVars, teardowns, removals, escaped>>

\* ---------------------------------------------------------- environment
\* the upstream peer drops the connection (for the patched client:
\* mock_listen has no more events)
UpstreamDrop(s) ==
    /\ up[s] = "open"
    /\ pc[s] \in {"configuring", "relay"}
    /\ up' = [up EXCEPT ![s] = "broken"]
    /\ UNCHANGED <<enabled, sessions, kind, pc, cl, toClient, toUp, creates, success,
                   relayVars, closeVars>>

\* the client goes away while the relay runs
ClientDrop(s) ==
    /\ cl[s] = "open"
    /\ pc[s] = "relay"
    /\ cl' = [cl EXCEPT ![s] = "gone"]
    /\ UNCHANGED <<enabled, sessions, kind, pc, up, toClient, toUp, creates, success,
                   relayVars, closeVars>>

\* ------------------------------------------------------------ alphabets
ClientEvents ==
    {[type |-> "input_audio_buffer.append", audio |-> "a1"],
     [type |-> "input_audio_buffer.commit"],
     [type |-> "response.create"],
     UnknownClientEvent}

VoiceWire ==
    {InvalidJson, Wire(GenericEvent), Wire(ItemCompleted(<<"Should I proceed">>))}

ProfileArgs == [field_name |-> "company_name", value |-> "KratorAI"]
StatusArgs == [page_completed |-> TRUE, missing_required_fields |-> <<"industry">>]

OnboardingWire ==
    {Wire(GenericEvent),
     Wire(ToolCallEvent(PROFILE_UPDATE_TOOL, "call_1", ArgsText(ProfileArgs))),
     Wire(ToolCallEvent(ONBOARDING_STATUS_TOOL, "call_2", ArgsText(StatusArgs))),
     Wire(ToolCallEvent(PROFILE_UPDATE_TOOL, "call_3", BadArgsText)),
     Wire(TranscriptDone(<<"Perfect.", "Welcome aboard KratorAI">>))}

WireFor(k) == IF k = "voice" THEN VoiceWire ELSE OnboardingWire

\* ------------------------------------------------------------------ Next
\* one connection served by either handler, with its relay traffic
Next ==
    \/ \E s \in RelayIds, k \in Kinds : Accept(s, k)
    \/ \E s \in RelayIds : NotConfigured(s)
    \/ \E s \in RelayIds : CreateRaises(s)
    \/ \E s \in RelayIds, connected \in BOOLEAN : CreateConnect(s, connected)
    \/ \E s \in RelayIds : CreateConfigure(s)
    \/ \E s \in RelayIds : CreatePatched(s)
    \/ \E s \in RelayIds, ev \in ClientEvents : C2SRecv(s, ev)
    \/ \E s \in RelayIds : C2SResp(s)
    \/ \E s \in RelayIds : C2SDisconnect(s)
    \/ \E s \in RelayIds : S2CStart(s)
    \/ \E s \in RelayIds : \E m \in WireFor(kind[s]) : S2CRecv(s, m)
    \/ \E s \in RelayIds : S2CEnd(s)
    \/ \E s \in RelayIds : S2CClassify(s)
    \/ \E s \in RelayIds : S2CAck(s)
    \/ \E s \in RelayIds : Gather(s)
    \/ \E s \in RelayIds : Finally(s)
    \/ \E s \in RelayIds, closed \in BOOLEAN : FinallyClose(s, closed)
    \/ \E s \in RelayIds : UpstreamDrop(s)
    \/ \E s \in RelayIds : ClientDrop(s)

Spec == Init /\ [][Next]_vars

\* the registry shared by two connections and RealtimeClient.cleanup: the
\* lifecycle of the sessions without their relay traffic
NextRegistry ==
    \/ \E s \in SessionIds, k \in {"voice", "onboarding"} : Accept(s, k)
    \/ \E s \in SessionIds : NotConfigured(s)
    \/ \E s \in SessionIds : CreateRaises(s)
    \/ \E s \in SessionIds, connected \in BOOLEAN : CreateConnect(s, connected)
    \/ \E s \in SessionIds : CreateConfigure(s)
    \/ \E s \in SessionIds : C2SDisconnect(s)
    \/ \E s \in SessionIds : S2CStart(s)
    \/ \E s \in SessionIds : S2CEnd(s)
    \/ \E s \in SessionIds : Gather(s)
    \/ \E s \in SessionIds : Finally(s)
    \/ \E s \in SessionIds, closed \in BOOLEAN : FinallyClose(s, closed)
    \/ CleanupStart
    \/ \E s \in SessionIds : CleanupCall(s)
    \/ \E closed \in BOOLEAN : CleanupClose(closed)
    \/ CleanupReturn
    \/ \E s \in SessionIds : UpstreamDrop(s)
    \/ \E s \in SessionIds : ClientDrop(s)

SpecRegistry == Init /\ [][NextRegistry]_vars

\* ------------------------------------------- the state accumulator alone
\* tool calls of every kind the classifier tells apart, on the handler run
\* with the patched client (the one client its create_session call works with)
OtherValueArgs == [field_name |-> "nickname", value |-> "Krator Labs"]
UndeclaredArgs == [field_name |-> "nickname", value |-> "[\"Gen Z\", \"Founders\"]"]
FullStatusArgs ==
    [page_completed |-> TRUE,
     highlight_fields |-> <<"industry">>,
     missing_required_fields |-> <<"industry", "team_size">>,
     suggested_options |-> <<"Tech", "Design", "Retail">>]
OtherStatusArgs ==
    [page_completed |-> FALSE,
     highlight_fields |-> <<"team_size">>,
     missing_required_fields |-> <<"team_size">>,
     suggested_options |-> <<"1-10">>]
UnknownTool == "delete_profile"

AccumulatorWire ==
    {Wire(GenericEvent),
     Wire(TranscriptDone(<<"Perfect.", "Welcome aboard KratorAI">>)),
     Wire(ToolCallEvent(PROFILE_UPDATE_TOOL, "call_1", ArgsText(ProfileArgs))),
     Wire(ToolCallEvent(PROFILE_UPDATE_TOOL, "call_2", ArgsText(OtherValueArgs))),
     Wire(ToolCallEvent(PROFILE_UPDATE_TOOL, "call_3", ArgsText(UndeclaredArgs))),
     Wire(ToolCallEvent(ONBOARDING_STATUS_TOOL, "call_4", ArgsText(FullStatusArgs))),
     Wire(ToolCallEvent(ONBOARDING_STATUS_TOOL, "call_5", ArgsText(OtherStatusArgs))),
     Wire(ToolCallEvent(ONBOARDING_STATUS_TOOL, "call_6", ArgsText(StatusArgs))),
     Wire(ToolCallEvent(ONBOARDING_STATUS_TOOL, "call_7", ArgsText(EmptyMap))),
     Wire(ToolCallEvent(UnknownTool, "call_8", ArgsText(ProfileArgs))),
     Wire(ToolCallEvent(PROFILE_UPDATE_TOOL, "call_9", BadArgsText))}

\* the client events that take the two paths of client_to_server: one that
\* goes on to create_response and one that no branch matches
AccumulatorClientEvents == {[type |-> "input_audio_buffer.commit"], UnknownClientEvent}

NextAccumulator ==
    \/ \E s \in RelayIds : Accept(s, "patched")
    \/ \E s \in RelayIds : CreatePatched(s)
    \/ \E s \in RelayIds, ev \in AccumulatorClientEvents : C2SRecv(s, ev)
    \/ \E s \in RelayIds : C2SResp(s)
    \/ \E s \in RelayIds : C2SDisconnect(s)
    \/ \E s \in RelayIds : S2CStart(s)
    \/ \E s \in RelayIds : \E m \in AccumulatorWire : S2CRecv(s, m)
    \/ \E s \in RelayIds : S2CEnd(s)
    \/ \E s \in RelayIds : S2CClassify(s)
    \/ \E s \in RelayIds : S2CAck(s)
    \/ \E s \in RelayIds : Gather(s)
    \/ \E s \in RelayIds : Finally(s)
    \/ \E s \in RelayIds : UpstreamDrop(s)
    \/ \E s \in RelayIds : ClientDrop(s)

SpecAccumulator == Init /\ [][NextAccumulator]_vars

\* ------------------------------------------------ payloads of any shape
\* events whose values have the JSON types the handler reads them as, and
\* events one of whose values has another type or is missing
NullArguments ==
    Mistyped(ToolCallEvent(PROFILE_UPDATE_TOOL, "call_2", BadArgsText), "arguments", "null")
StructuredArguments ==
    Mistyped(ToolCallEvent(PROFILE_UPDATE_TOOL, "call_3", BadArgsText), "arguments", "object")
ArrayArgs ==
    Mistyped(ToolCallEvent(PROFILE_UPDATE_TOOL, "call_4", ArgsText(EmptyMap)), "args", "array")
ArrayArgsUnknownTool ==
    Mistyped(ToolCallEvent(UnknownTool, "call_5", ArgsText(EmptyMap)), "args", "array")
NullItem ==
    Mistyped([type |-> "response.output_item.done", item |-> EmptyMap], "item", "null")
MissingItem == [type |-> "response.output_item.done"]
NullTranscript == Mistyped(TranscriptDone(<<>>), "transcript", "null")
MissingTranscript == [type |-> "response.audio_transcript.done"]

ShapesWire ==
    {Wire(GenericEvent),
     Wire(TranscriptDone(<<"Perfect.", "Welcome aboard KratorAI">>)),
     Wire(ToolCallEvent(PROFILE_UPDATE_TOOL, "call_1", ArgsText(ProfileArgs))),
     Wire(ToolCallEvent(PROFILE_UPDATE_TOOL, "call_9", BadArgsText)),
     Wire(NullArguments),
     Wire(StructuredArguments),
     Wire(ArrayArgs),
     Wire(ArrayArgsUnknownTool),
     Wire(NullItem),
     Wire(MissingItem),
     Wire(NullTranscript),
     Wire(MissingTranscript)}

NextShapes ==
    \/ \E s \in RelayIds : Accept(s, "patched")
    \/ \E s \in RelayIds : CreatePatched(s)
    \/ \E s \in RelayIds : C2SDisconnect(s)
    \/ \E s \in RelayIds : S2CStart(s)
    \/ \E s \in RelayIds : \E m \in ShapesWire : S2CRecv(s, m)
    \/ \E s \in RelayIds : S2CEnd(s)
    \/ \E s \in RelayIds : S2CClassify(s)
    \/ \E s \in RelayIds : S2CAck(s)
    \/ \E s \in RelayIds : Gather(s)
    \/ \E s \in RelayIds : Finally(s)
    \/ \E s \in RelayIds : UpstreamDrop(s)
    \/ \E s \in RelayIds : ClientDrop(s)

SpecShapes == Init /\ [][NextShapes]_vars

\* --- the completion check: transcripts with the phrase in three spellings,
\* without it, with a part of it, without a transcript, and events that are
\* no finalized transcript but carry the phrase
TranscriptDelta(text) == [type |-> "response.audio_transcript.delta", delta |-> text]
InputTranscript(text) ==
    [type |-> "conversation.item.input_audio_transcription.completed", transcript |-> text]
PhraseArgs == [field_name |-> "company_name", value |-> "Welcome aboard KratorAI"]

CompletionWire ==
    {Wire(TranscriptDone(<<"Perfect.", "Welcome aboard KratorAI">>)),
     Wire(TranscriptDone(<<"WELCOME ABOARD KRATORAI">>)),
     Wire(TranscriptDone(<<"welcome aboard kratorai">>)),
     Wire(TranscriptDone(<<"Perfect.">>)),
     Wire(TranscriptDone(<<"Welcome aboard">>)),
     Wire(MissingTranscript),
     Wire(TranscriptDelta(<<"Welcome aboard KratorAI">>)),
     Wire(InputTranscript(<<"Welcome aboard KratorAI">>)),
     Wire(ToolCallEvent(PROFILE_UPDATE_TOOL, "call_1", ArgsText(PhraseArgs)))}

NextCompletion ==
    \/ \E s \in RelayIds : Accept(s, "patched")
    \/ \E s \in RelayIds : CreatePatched(s)
    \/ \E s \in RelayIds : C2SDisconnect(s)
    \/ \E s \in RelayIds : S2CStart(s)
    \/ \E s \in RelayIds : \E m \in CompletionWire : S2CRecv(s, m)
    \/ \E s \in RelayIds : S2CEnd(s)
    \/ \E s \in RelayIds : S2CClassify(s)
    \/ \E s \in RelayIds : S2CAck(s)
    \/ \E s \in RelayIds : Gather(s)
    \/ \E s \in RelayIds : Finally(s)
    \/ \E s \in RelayIds : UpstreamDrop(s)
    \/ \E s \in RelayIds : ClientDrop(s)

SpecCompletion == Init /\ [][NextCompletion]_vars

\* --- failures after setup, on both routes: an upstream event of type error,
\* events and client messages of unknown type, payloads of a shape the
\* handler does not expect, write failures and disconnects
UpstreamError == [type |-> "error", error |-> [message |-> "rate limit"]]

FailuresClientEvents ==
    {[type |-> "input_audio_buffer.commit"], UnknownClientEvent, ArrayClientEvent}

FailuresWire(k) ==
    IF k = "voice"
    THEN {Wire(GenericEvent), Wire(UpstreamError), InvalidJson}
    ELSE {Wire(GenericEvent), Wire(UpstreamError), Wire(NullItem),
          Wire(ToolCallEvent(PROFILE_UPDATE_TOOL, "call_1", ArgsText(ProfileArgs)))}

NextFailures ==
    \/ \E s \in RelayIds, k \in {"voice", "patched"} : Accept(s, k)
    \/ \E s \in RelayIds, connected \in BOOLEAN : CreateConnect(s, connected)
    \/ \E s \in RelayIds : CreateConfigure(s)
    \/ \E s \in RelayIds : CreatePatched(s)
    \/ \E s \in RelayIds, ev \in FailuresClientEvents : C2SRecv(s, ev)
    \/ \E s \in RelayIds : C2SResp(s)
    \/ \E s \in RelayIds : C2SDisconnect(s)
    \/ \E s \in RelayIds : S2CStart(s)
    \/ \E s \in RelayIds : \E m \in FailuresWire(kind[s]) : S2CRecv(s, m)
    \/ \E s \in RelayIds : S2CEnd(s)
    \/ \E s \in RelayIds : S2CClassify(s)
    \/ \E s \in RelayIds : S2CAck(s)
    \/ \E s \in RelayIds : Gather(s)
    \/ \E s \in RelayIds : Finally(s)
    \/ \E s \in RelayIds, closed \in BOOLEAN : FinallyClose(s, closed)
    \/ \E s \in RelayIds : UpstreamDrop(s)
    \/ \E s \in RelayIds : ClientDrop(s)

SpecFailures == Init /\ [][NextFailures]_vars

\* --- the voice route with every client message the loop tells apart: audio
\* chunks with different payloads and without one, commit, response.create
\* and a type it does not know
VoiceClientEvents ==
    {[type |-> "input_audio_buffer.append", audio |-> "a1"],
     [type |-> "input_audio_buffer.append", audio |-> "a2"],
     [type |-> "input_audio_buffer.append"],
     [type |-> "input_audio_buffer.commit"],
     [type |-> "response.create"],
     UnknownClientEvent}

NextClient ==
    \/ \E s \in RelayIds : Accept(s, "voice")
    \/ \E s \in RelayIds, connected \in BOOLEAN : CreateConnect(s, connected)
    \/ \E s \in RelayIds : CreateConfigure(s)
    \/ \E s \in RelayIds, ev \in VoiceClientEvents : C2SRecv(s, ev)
    \/ \E s \in RelayIds : C2SResp(s)
    \/ \E s \in RelayIds : C2SDisconnect(s)
    \/ \E s \in RelayIds : S2CStart(s)
    \/ \E s \in RelayIds : S2CRecv(s, Wire(GenericEvent))
    \/ \E s \in RelayIds : S2CEnd(s)
    \/ \E s \in RelayIds : S2CClassify(s)
    \/ \E s \in RelayIds : Gather(s)
    \/ \E s \in RelayIds : Finally(s)
    \/ \E s \in RelayIds, closed \in BOOLEAN : FinallyClose(s, closed)
    \/ \E s \in RelayIds : UpstreamDrop(s)
    \/ \E s \in RelayIds : ClientDrop(s)

SpecClient == Init /\ [][NextClient]_vars

\* --- two sessions at the same time on the one client: onboarding handlers
\* with tool calls and a transcript, voice handlers with the registry
IsolationWire(k) ==
    IF k = "voice"
    THEN {Wire(GenericEvent)}
    ELSE {Wire(ToolCallEvent(PROFILE_UPDATE_TOOL, "call_1", ArgsText(ProfileArgs))),
          Wire(ToolCallEvent(PROFILE_UPDATE_TOOL, "call_2", ArgsText(OtherValueArgs))),
          Wire(TranscriptDone(<<"Perfect.", "Welcome aboard KratorAI">>))}

\* the events all sessions together have received
RECURSIVE Total(_, _)
Total(count, ids) ==
    IF ids = {} THEN 0
    ELSE LET s == CHOOSE x \in ids : TRUE IN count[s] + Total(count, ids \ {s})

\* one message arrives for session s, while the sessions together have
\* received fewer than MaxUp
IsolationRecv(s, m) ==
    /\ Total(nUp, SessionIds) < MaxUp
    /\ S2CRecv(s, m)

NextIsolation ==
    \/ \E s \in SessionIds, k \in {"voice", "patched"} : Accept(s, k)
    \/ \E s \in SessionIds : CreateConnect(s, TRUE)
    \/ \E s \in SessionIds : CreateConfigure(s)
    \/ \E s \in SessionIds : CreatePatched(s)
    \/ \E s \in SessionIds : C2SDisconnect(s)
    \/ \E s \in SessionIds : S2CStart(s)
    \/ \E s \in SessionIds : \E m \in IsolationWire(kind[s]) : IsolationRecv(s, m)
    \/ \E s \in SessionIds : S2CEnd(s)
    \/ \E s \in SessionIds : S2CClassify(s)
    \/ \E s \in SessionIds : S2CAck(s)
    \/ \E s \in SessionIds : Gather(s)
    \/ \E s \in SessionIds : Finally(s)
    \/ \E s \in SessionIds, closed \in BOOLEAN : FinallyClose(s, closed)
    \/ \E s \in SessionIds : UpstreamDrop(s)
    \/ \E s \in SessionIds : ClientDrop(s)

SpecIsolation == Init /\ [][NextIsolation]_vars

\* --- a voice session with client traffic while cleanup() closes the
\* sessions of the registry
CleanupClientEvents ==
    {[type |-> "input_audio_buffer.append", audio |-> "a1"],
     [type |-> "input_audio_buffer.commit"]}

NextCleanup ==
    \/ \E s \in RelayIds : Accept(s, "voice")
    \/ \E s \in RelayIds : CreateConnect(s, TRUE)
    \/ \E s \in RelayIds : CreateConfigure(s)
    \/ \E s \in RelayIds, ev \in CleanupClientEvents : C2SRecv(s, ev)
    \/ \E s \in RelayIds : C2SResp(s)
    \/ \E s \in RelayIds : C2SDisconnect(s)
    \/ \E s \in RelayIds : S2CStart(s)
    \/ \E s \in RelayIds : S2CRecv(s, Wire(GenericEvent))
    \/ \E s \in RelayIds : S2CEnd(s)
    \/ \E s \in RelayIds : S2CClassify(s)
    \/ \E s \in RelayIds : Gather(s)
    \/ \E s \in RelayIds : Finally(s)
    \/ \E s \in RelayIds, closed \in BOOLEAN : FinallyClose(s, closed)
    \/ CleanupStart
    \/ \E s \in RelayIds : CleanupCall(s)
    \/ \E closed \in BOOLEAN : CleanupClose(closed)
    \/ CleanupReturn
    \/ \E s \in RelayIds : UpstreamDrop(s)
    \/ \E s \in RelayIds : ClientDrop(s)

SpecCleanup == Init /\ [][NextCleanup]_vars

\* ================================================================ claims
Range(seq) == {seq[i] : i \in DOMAIN seq}
IsPrefix(a, b) == Len(a) <= Len(b) /\ SubSeq(b, 1, Len(a)) = a
Last(seq) == seq[Len(seq)]

\* the steps a handler takes by itself, without a further message or a drop
\* from either endpoint
HandlerStep(s) ==
    \/ C2SResp(s) \/ C2SDisconnect(s)
    \/ S2CStart(s) \/ S2CEnd(s) \/ S2CClassify(s) \/ S2CAck(s)
    \/ Gather(s) \/ Finally(s)
    \/ \E closed \in BOOLEAN : FinallyClose(s, closed)

\* C1: once one forwarding loop of a session has ended, the sibling is
\* cancelled: it handles no further message of its own. (Stated for the
\* handlers running on RealtimeClient.)
C1_SiblingCancelled ==
    [][\A s \in SessionIds :
          kind[s] = "voice" =>
              /\ (s2c[s] = "done" /\ c2s[s] # "done") => nClient'[s] = nClient[s]
              /\ (c2s[s] = "done" /\ s2c[s] # "done") => nUp'[s] = nUp[s]]_vars

Dropped(s) ==
    /\ kind[s] = "voice"
    /\ success[s] = "true"
    /\ (cl[s] = "gone" \/ up[s] = "broken")
\* C2: after a drop of the client or the upstream connection of a session
\* that was set up, teardown runs exactly once: never twice, and whenever the
\* handler can take no further step by itself teardown has already run.
C2_TeardownExactlyOnce ==
    \A s \in SessionIds :
        /\ teardowns[s] <= 1
        /\ (Dropped(s) /\ ~ENABLED HandlerStep(s)) => teardowns[s] = 1

InRegistryCall(s) ==
    \/ pc[s] \in {"configuring", "closing"}
    \/ (cleanup.pc = "closing" /\ cleanup.id = s)
\* C3: an id has a registry entry if and only if its upstream connection is
\* open, in every state in which no create_session or close_session call for
\* that id is running and the handler has no step left to take by itself.
C3_RegisteredIffOpen ==
    \A s \in SessionIds :
        (kind[s] # "patched" /\ ~InRegistryCall(s) /\ ~ENABLED HandlerStep(s))
            => (s \in sessions <=> up[s] = "open")

ClosedTwice(s) ==
    /\ success[s] = "true"
    /\ pc[s] = "closed"
    /\ cleanup.pc = "done"
    /\ s \in cleanup.called
\* C4: when close_session(id) has been called and has returned twice for a
\* registered id (by the handler's finally block and by cleanup, one after the
\* other or interleaved at `await ws.close()`), the entry was removed exactly
\* once and no exception reached a caller.
C4_CloseIdempotent ==
    \A s \in SessionIds :
        ClosedTwice(s) => removals[s] = 1 /\ ~escaped[s] /\ s \notin sessions

\* C5: once close_session has returned for an id that was registered, the
\* entry is gone and the connection is closed, whatever ws.close() did.
C5_CloseAlwaysRemoves ==
    \A s \in SessionIds :
        (success[s] = "true" /\ kind[s] # "patched" /\ pc[s] = "closed")
            => (s \notin sessions /\ up[s] = "closed")

CreateFails(s) == success[s] = "unset" /\ success'[s] \in {"false", "raised"}
\* C6: a create_session call that fails leaves the registry exactly as it was
\* before the call, and the id has no entry.
C6_FailedCreateRegistersNothing ==
    /\ [][\A s \in SessionIds : CreateFails(s) => sessions' = sessions]_vars
    /\ [](\A s \in SessionIds : success[s] \in {"false", "raised"} => s \notin sessions)
C6_Witness ==
    \E s \in SessionIds :
        /\ success[s] = "false"
        /\ up[s] = "broken"
        /\ sessions = SessionIds \ {s}

IsConfig(m) == m.type = "session.update"
\* C7: the create_session call of the onboarding handler, with its two tool
\* schemas, is accepted, and the first message on a registered connection is
\* the one configuration message, carrying instructions, tools, voice and
\* temperature.
C7_ConfigCarriesTools ==
    \A s \in SessionIds :
        /\ (kind[s] = "onboarding" /\ creates[s] > 0) => success[s] # "raised"
        /\ (s \in sessions /\ kind[s] = "onboarding") =>
              /\ IsConfig(toUp[s][1])
              /\ Len(SelectSeq(toUp[s], IsConfig)) = 1
              /\ {"instructions", "tools", "voice", "temperature"} \subseteq DOMAIN toUp[s][1]

SetupFailure(s) ==
    \/ success[s] \in {"false", "raised"}
    \/ (success[s] = "unset" /\ pc[s] = "closed")
\* C8: when setup fails (create_session returns failure or raises, or the
\* client is not configured) the client gets exactly one message, of type
\* error; no loop starts, nothing is registered, create_session is not called
\* again, and the handler ends with the client channel closed.
C8_SetupFailureSurfaced ==
    \A s \in SessionIds :
        SetupFailure(s) =>
            /\ Len(toClient[s]) = 1
            /\ toClient[s][1].type = "error"
            /\ c2s[s] = "idle" /\ s2c[s] = "idle"
            /\ upIn[s] = <<>>
            /\ s \notin sessions
            /\ creates[s] <= 1
            /\ pc[s] \in {"finally", "closed"}
            /\ (pc[s] = "closed" => cl[s] = "closed")
C8_Witness ==
    \E s \in SessionIds :
        /\ success[s] = "false"
        /\ up[s] = "broken"
        /\ pc[s] = "closed"
        /\ toClient[s] = <<ErrorMsg("Failed to create realtime session")>>

RelayTypes ==
    {"session.created", "onboarding.update", "onboarding.complete",
     "conversation.complete", "error"}
IsForwarded(m) == m.type \notin RelayTypes
Forwarded(s) == SelectSeq(toClient[s], IsForwarded)
DerivedFollowsSource(s) ==
    \A i \in DOMAIN toClient[s] :
        LET m == toClient[s][i] IN
        /\ m.type = "onboarding.update" => i > 1 /\ IsToolCall(toClient[s][i - 1])
        /\ m.type = "onboarding.complete" =>
              i > 1 /\ toClient[s][i - 1] = TranscriptDone(m.final_summary)
        /\ m.type = "conversation.complete" =>
              i > 1 /\ toClient[s][i - 1] = ItemCompleted(m.final_prompt)
\* C9: the events forwarded to the client are a prefix of the events listen
\* yielded, each once and in order; while the loop runs every yielded event
\* has been forwarded; a message derived from an event directly follows that
\* event.
C9_ForwardedInOrder ==
    \A s \in SessionIds :
        /\ IsPrefix(Forwarded(s), upIn[s])
        /\ Len(upIn[s]) <= Len(Forwarded(s)) + 1
        /\ s2c[s] # "done" => Forwarded(s) = upIn[s]
        /\ DerivedFollowsSource(s)
C9_Witness ==
    \E s \in SessionIds :
        /\ Len(upIn[s]) = MaxUp
        /\ Forwarded(s) = upIn[s]
        /\ \E i \in DOMAIN toClient[s] : toClient[s][i].type = "onboarding.update"
        /\ \E i \in DOMAIN toClient[s] : toClient[s][i].type = "onboarding.complete"

IsAck(m) == m.type = "conversation.item.create"
AckIds(s) ==
    LET a == SelectSeq(toUp[s], IsAck) IN [i \in DOMAIN a |-> a[i].item.call_id]
IsParsedToolCall(m) == IsToolCall(m) /\ m.item.arguments.parses
ParsedCallIds(s) ==
    LET c == SelectSeq(toClient[s], IsParsedToolCall) IN
    [i \in DOMAIN c |-> c[i].item.call_id]
MutationApplied(state, item) ==
    LET args == item.arguments.value IN
    /\ item.name = PROFILE_UPDATE_TOOL =>
          /\ args.field_name \in DOMAIN state.prefill_fields
          /\ state.prefill_fields[args.field_name] = args.value
    /\ item.name = ONBOARDING_STATUS_TOOL =>
          /\ state.page_completed = args.page_completed
          /\ state.missing_required_fields = args.missing_required_fields
C10_AtAck(s) ==
    LET n == Len(toClient[s]) IN
    /\ n >= 2
    /\ toClient[s][n - 1] = cur[s]
    /\ toClient[s][n] = OnboardingUpdateMsg(acc[s])
    /\ MutationApplied(acc[s], cur[s].item)
    /\ Len(AckIds(s)) = Len(ParsedCallIds(s)) - 1
C10_State ==
    \A s \in SessionIds :
        kind[s] = "patched" =>
            /\ IsPrefix(AckIds(s), ParsedCallIds(s))
            /\ s2c[s] = "listen" => AckIds(s) = ParsedCallIds(s)
            /\ s2c[s] = "ack" => C10_AtAck(s)
C10_Step ==
    \A s \in SessionIds :
        acc'[s] # acc[s] =>
            /\ s2c[s] = "classify"
            /\ toClient[s] # <<>>
            /\ Last(toClient[s]) = cur[s]
            /\ IsToolCall(cur[s])
\* C10: a tool call is forwarded before the state changes; the snapshot sent
\* next carries the state after the change; the acknowledgement is written
\* after the snapshot and carries the call_id of that event.
C10_ForwardMutateSnapshotAck == []C10_State /\ [][C10_Step]_vars
C10_Witness ==
    \E s \in SessionIds :
        /\ s2c[s] = "listen"
        /\ AckIds(s) = <<"call_1", "call_2">>
        /\ acc[s].prefill_fields = [company_name |-> "KratorAI"]
        /\ acc[s].page_completed

IsUpdate(m) == m.type = "onboarding.update"
Updates(s) == SelectSeq(toClient[s], IsUpdate)
SessionOpen(s) == pc[s] = "relay" /\ cl[s] = "open" /\ up[s] = "open"
\* C11: a tool call whose arguments parse never has more than one
\* onboarding.update or more than one acknowledgement, the acknowledgements
\* carry the call_ids in order, and whenever the session is open and the
\* handler has no step left to take by itself, every such tool call has its
\* one onboarding.update and its one acknowledgement.
C11_OneSnapshotOneAck ==
    \A s \in SessionIds :
        kind[s] = "patched" =>
            /\ Len(Updates(s)) <= Len(ParsedCallIds(s))
            /\ IsPrefix(AckIds(s), ParsedCallIds(s))
            /\ (SessionOpen(s) /\ ~ENABLED HandlerStep(s)) =>
                  /\ Len(Updates(s)) = Len(ParsedCallIds(s))
                  /\ AckIds(s) = ParsedCallIds(s)

RECURSIVE Replay(_)
Replay(calls) ==
    IF calls = <<>> THEN InitialOnboardingUpdate
    ELSE LET item == Last(calls).item IN
         ApplyTool(Replay(SubSeq(calls, 1, Len(calls) - 1)), item.name, item.arguments.value)
ParsedCallsBefore(s, i) == SelectSeq(SubSeq(toClient[s], 1, i - 1), IsParsedToolCall)
SnapshotFields ==
    {"type", "prefill_fields", "highlight_fields", "suggested_options",
     "page_completed", "missing_required_fields"}
\* C12: every onboarding.update carries exactly the five state fields, with
\* the values that result from applying, in order, all tool calls processed
\* before it; and while the loop runs the latest onboarding.update is the
\* current state.
C12_SnapshotIsFullState ==
    \A s \in SessionIds :
        /\ \A i \in DOMAIN toClient[s] :
              IsUpdate(toClient[s][i]) =>
                  /\ DOMAIN toClient[s][i] = SnapshotFields
                  /\ toClient[s][i] = OnboardingUpdateMsg(Replay(ParsedCallsBefore(s, i)))
        /\ (s2c[s] # "done" /\ Updates(s) # <<>>) =>
              Last(Updates(s)) = OnboardingUpdateMsg(acc[s])
        /\ (s2c[s] # "done" /\ Updates(s) = <<>>) => acc[s] = InitialOnboardingUpdate
C12_Witness ==
    \E s \in SessionIds :
        /\ Len(Updates(s)) = 2
        /\ Updates(s)[1].missing_required_fields = <<"industry", "team_size">>
        /\ Updates(s)[1].prefill_fields = EmptyMap
        /\ Updates(s)[2].prefill_fields = [company_name |-> "KratorAI"]
        /\ Updates(s)[2].missing_required_fields = <<"industry", "team_size">>
        /\ Updates(s)[2].page_completed

IsStatusCall(m) == IsParsedToolCall(m) /\ m.item.name = ONBOARDING_STATUS_TOOL
StatusFields ==
    {"page_completed", "highlight_fields", "missing_required_fields", "suggested_options"}
\* C13: the snapshot sent for a status-update, and the state it leaves, hold for
\* each of the four status fields that the call's arguments give exactly the
\* given value, whatever an earlier status-update left there.
C13_StatusReplaces ==
    \A s \in SessionIds :
        (s2c[s] = "ack" /\ IsStatusCall(cur[s])) =>
            \A f \in StatusFields \cap DOMAIN cur[s].item.arguments.value :
                /\ acc[s][f] = cur[s].item.arguments.value[f]
                /\ Last(toClient[s])[f] = cur[s].item.arguments.value[f]
C13_Witness ==
    \E s \in SessionIds :
        /\ s2c[s] = "ack"
        /\ cur[s].item.arguments.value = OtherStatusArgs
        /\ Len(Updates(s)) = 2
        /\ Updates(s)[1].missing_required_fields = <<"industry", "team_size">>
        /\ acc[s].missing_required_fields = <<"team_size">>

StatusDefault(f) == IF f = "page_completed" THEN FALSE ELSE <<>>
\* C14: for each of the four status keys that the arguments of a status-update
\* omit, the snapshot sent for the call and the state it leaves hold false
\* (page_completed) or the empty list, whatever the field held before.
C14_OmittedKeysReset ==
    \A s \in SessionIds :
        (s2c[s] = "ack" /\ IsStatusCall(cur[s])) =>
            \A f \in StatusFields \ DOMAIN cur[s].item.arguments.value :
                /\ acc[s][f] = StatusDefault(f)
                /\ Last(toClient[s])[f] = StatusDefault(f)
C14_Witness ==
    \E s \in SessionIds :
        /\ s2c[s] = "ack"
        /\ cur[s].item.arguments.value = EmptyMap
        /\ Len(Updates(s)) = 2
        /\ Updates(s)[1].page_completed
        /\ Updates(s)[1].suggested_options = <<"Tech", "Design", "Retail">>
        /\ ~acc[s].page_completed
        /\ acc[s].suggested_options = <<>>
        /\ acc[s].highlight_fields = <<>>
        /\ acc[s].missing_required_fields = <<>>

IsFieldCall(m) == IsParsedToolCall(m) /\ m.item.name = PROFILE_UPDATE_TOOL
DeclaredFieldNames ==
    {"company_name", "industry", "team_size", "brand_name", "voice_tone",
     "logo_status", "palette_preference", "target_audience_tags",
     "marketing_objective", "ideal_customer_description", "aesthetic_style"}
\* C15: the snapshot sent for a field-update, and the state it leaves, hold
\* under the given field_name exactly the given value, whether or not the name
\* is declared and whatever the value's text is, in place of any value an
\* earlier field-update wrote under that name.
C15_FieldLastWriteWins ==
    \A s \in SessionIds :
        (s2c[s] = "ack" /\ IsFieldCall(cur[s])) =>
            LET args == cur[s].item.arguments.value IN
            /\ args.field_name \in DOMAIN acc[s].prefill_fields
            /\ acc[s].prefill_fields[args.field_name] = args.value
            /\ Last(toClient[s]).prefill_fields = acc[s].prefill_fields
C15_Witness ==
    \E s \in SessionIds :
        /\ s2c[s] = "ack"
        /\ cur[s].item.arguments.value = UndeclaredArgs
        /\ UndeclaredArgs.field_name \notin DeclaredFieldNames
        /\ Len(Updates(s)) = 2
        /\ Updates(s)[1].prefill_fields = [nickname |-> "Krator Labs"]
        /\ acc[s].prefill_fields = [nickname |-> "[\"Gen Z\", \"Founders\"]"]

C16_FieldStep(s) ==
    LET name == Get(cur[s].item.arguments.value, "field_name", None) IN
    /\ \A f \in StatusFields : acc'[s][f] = acc[s][f]
    /\ DOMAIN acc'[s].prefill_fields \subseteq DOMAIN acc[s].prefill_fields \cup {name}
    /\ \A k \in DOMAIN acc[s].prefill_fields \ {name} :
          /\ k \in DOMAIN acc'[s].prefill_fields
          /\ acc'[s].prefill_fields[k] = acc[s].prefill_fields[k]
C16_StatusStep(s) == acc'[s].prefill_fields = acc[s].prefill_fields
\* C16: the step that handles a field-update changes no status field and no
\* prefill_fields entry other than the one it names; the step that handles a
\* status-update leaves prefill_fields as it was.
C16_DisjointParts ==
    [][\A s \in SessionIds :
          s2c[s] = "classify" =>
              /\ IsFieldCall(cur[s]) => C16_FieldStep(s)
              /\ IsStatusCall(cur[s]) => C16_StatusStep(s)]_vars
C16_Witness ==
    \E s \in SessionIds :
        /\ s2c[s] = "ack"
        /\ cur[s].item.arguments.value = FullStatusArgs
        /\ Len(Updates(s)) = 2
        /\ Last(toClient[s]) =
              OnboardingUpdateMsg([prefill_fields |-> [company_name |-> "KratorAI"],
                                   highlight_fields |-> <<"industry">>,
                                   suggested_options |-> <<"Tech", "Design", "Retail">>,
                                   page_completed |-> TRUE,
                                   missing_required_fields |-> <<"industry", "team_size">>])

RecognizedTools == {PROFILE_UPDATE_TOOL, ONBOARDING_STATUS_TOOL}
IsComplete(m) == m.type = "onboarding.complete"
C17_Step(s) ==
    /\ acc'[s] # acc[s] =>
          /\ s2c[s] = "classify"
          /\ s2c'[s] # "classify"
          /\ IsParsedToolCall(cur[s])
          /\ cur[s].item.name \in RecognizedTools
    /\ (c2s'[s] # c2s[s] \/ nClient'[s] # nClient[s]) => acc'[s] = acc[s]
    /\ nUp'[s] # nUp[s] => acc'[s] = acc[s]
    /\ Len(SelectSeq(toClient'[s], IsComplete)) # Len(SelectSeq(toClient[s], IsComplete))
          => acc'[s] = acc[s]
\* C17: a step changes a session's state only if it is the classifier of
\* server_to_client working on a tool call with parsed arguments and one of
\* the two tool names; steps of client_to_server, the forwarding of an
\* upstream event and the step that writes onboarding.complete leave it as
\* it was.
C17_StateChangedOnlyByToolCalls == [][\A s \in SessionIds : C17_Step(s)]_vars
C17_Witness ==
    \E s \in SessionIds :
        /\ nClient[s] = MaxClient
        /\ \E i \in DOMAIN toClient[s] : IsComplete(toClient[s][i])
        /\ \E i \in DOMAIN toClient[s] :
              IsToolCall(toClient[s][i]) /\ toClient[s][i].item.name = UnknownTool
        /\ Len(Updates(s)) = 1
        /\ acc[s] = InitialOnboardingUpdate
        /\ s2c[s] = "listen"

IsUnparsedToolCall(m) ==
    IsToolCall(m) /\ "mistyped" \notin DOMAIN m /\ ~m.item.arguments.parses
C18_Step(s) ==
    (s2c[s] = "classify" /\ IsUnparsedToolCall(cur[s]) /\ s2c'[s] # s2c[s]) =>
        /\ acc'[s] = acc[s]
        /\ toClient'[s] = toClient[s]
        /\ toUp'[s] = toUp[s]
        /\ s2c'[s] = "listen"
C18_State(s) ==
    s2c[s] = "listen" =>
        /\ Len(Updates(s)) = Len(ParsedCallIds(s))
        /\ AckIds(s) = ParsedCallIds(s)
\* C18: the step that handles a tool call whose arguments text does not parse
\* changes neither the state nor the client log nor the upstream log and
\* returns the loop to listening; the tool calls that parse, before and after
\* it, each have their onboarding.update and acknowledgement.
C18_UnparsedSkipped ==
    /\ [][\A s \in SessionIds : C18_Step(s)]_vars
    /\ [](\A s \in SessionIds : C18_State(s))
C18_Witness ==
    \E s \in SessionIds :
        /\ s2c[s] = "listen"
        /\ Len(toClient[s]) = 4
        /\ IsUnparsedToolCall(toClient[s][2])
        /\ IsFieldCall(toClient[s][3])
        /\ toClient[s][4] =
              OnboardingUpdateMsg([InitialOnboardingUpdate EXCEPT
                                      !.prefill_fields = [company_name |-> "KratorAI"]])
        /\ AckIds(s) = <<"call_1">>

\* C19: server_to_client ends only when the upstream stream or the client
\* channel has ended: no event, whatever its shape, ends the loop while both
\* are open.
C19_NoPayloadEndsLoop ==
    \A s \in SessionIds :
        (kind[s] = "patched" /\ s2c[s] = "done") => (up[s] # "open" \/ cl[s] # "open")

Completes(s) == SelectSeq(toClient[s], IsComplete)
C20_Step(s) ==
    Len(Completes(s))' > Len(Completes(s)) =>
        /\ s2c'[s] = "listen"
        /\ pc'[s] = pc[s] /\ c2s'[s] = c2s[s]
        /\ cl'[s] = cl[s] /\ up'[s] = up[s]
        /\ sessions' = sessions
        /\ acc'[s] = acc[s] /\ toUp'[s] = toUp[s]
IsMarker(e) ==
    /\ e.type = "response.audio_transcript.done"
    /\ "mistyped" \notin DOMAIN e
    /\ ContainsLower(Get(e, "transcript", <<>>), "welcome aboard kratorai")
C20_State(s) ==
    Completes(s) # <<>> =>
        /\ (s2c[s] = "done" /\ IsMarker(cur[s])) => (up[s] # "open" \/ cl[s] # "open")
        /\ c2s[s] = "done" => cl[s] # "open"
        /\ pc[s] # "relay" => (s2c[s] = "done" /\ c2s[s] = "done")
        /\ s2c[s] = "listen" =>
              /\ Forwarded(s) = upIn[s]
              /\ Len(Updates(s)) = Len(ParsedCallIds(s))
              /\ AckIds(s) = ParsedCallIds(s)
\* C20: the step that writes onboarding.complete changes nothing else: both
\* loops stay where they were, both connections and the registry are
\* untouched. A loop does not end on the marker while both connections are
\* open, client_to_server ends only when the client has gone, and while
\* server_to_client listens the events that followed the marker have been
\* forwarded and the tool calls among them have their onboarding.update and
\* acknowledgement, as before.
C20_CompletionIsAdvisory ==
    /\ [][\A s \in SessionIds : C20_Step(s)]_vars
    /\ [](\A s \in SessionIds : C20_State(s))
C20_Witness ==
    \E s \in SessionIds :
        /\ SessionOpen(s)
        /\ s2c[s] = "listen" /\ c2s[s] = "recv"
        /\ nClient[s] = MaxClient
        /\ Len(toClient[s]) = 5
        /\ IsComplete(toClient[s][3])
        /\ IsStatusCall(toClient[s][4])
        /\ toClient[s][5] = OnboardingUpdateMsg(Replay(<<toClient[s][4]>>))
        /\ toClient[s][5].page_completed
        /\ AckIds(s) = <<toClient[s][4].item.call_id>>

\* --- the completion check
ClassifyStep(s) == s2c[s] = "classify" /\ s2c'[s] # "classify"
Spellings == {"Welcome aboard KratorAI", "WELCOME ABOARD KRATORAI", "welcome aboard kratorai"}
IsFinalTranscript(e) == e.type = "response.audio_transcript.done"
HasPhrase(e) ==
    /\ "transcript" \in DOMAIN e
    /\ "mistyped" \notin DOMAIN e
    /\ \E i \in DOMAIN e.transcript : e.transcript[i] \in Spellings
C21_Step(s) ==
    (ClassifyStep(s) /\ IsFinalTranscript(cur[s]) /\ cl[s] = "open") =>
        IF HasPhrase(cur[s])
        THEN toClient'[s] =
                Append(toClient[s],
                       [type |-> "onboarding.complete", final_summary |-> cur[s].transcript])
        ELSE toClient'[s] = toClient[s]
\* C21: when the handler has forwarded a finalized transcript and the client
\* is connected, it writes onboarding.complete if and only if the transcript
\* contains the phrase in some spelling of upper and lower case, and the
\* final_summary is the transcript as received.
C21_CompleteIffPhrase == [][\A s \in SessionIds : C21_Step(s)]_vars
C21_Witness ==
    \E s \in SessionIds :
        /\ Len(upIn[s]) = 2
        /\ upIn[s][1] = TranscriptDone(<<"Welcome aboard">>)
        /\ upIn[s][2] = TranscriptDone(<<"Perfect.", "Welcome aboard KratorAI">>)
        /\ s2c[s] = "listen"
        /\ Len(toClient[s]) = 4
        /\ toClient[s][4] =
              [type |-> "onboarding.complete",
               final_summary |-> <<"Perfect.", "Welcome aboard KratorAI">>]

Decoys ==
    {TranscriptDelta(<<"Welcome aboard KratorAI">>),
     InputTranscript(<<"Welcome aboard KratorAI">>),
     ToolCallEvent(PROFILE_UPDATE_TOOL, "call_1", ArgsText(PhraseArgs))}
C22_Step(s) ==
    /\ Len(Completes(s))' > Len(Completes(s)) =>
          ClassifyStep(s) /\ IsFinalTranscript(cur[s])
    /\ (ClassifyStep(s) /\ ~IsFinalTranscript(cur[s])) =>
          Completes(s)' = Completes(s)
\* C22: onboarding.complete is written only in the step that classifies a
\* response.audio_transcript.done event; classifying a partial transcript, a
\* tool call or an event of another type that carries the phrase writes none.
C22_OnlyFinalTranscripts == [][\A s \in SessionIds : C22_Step(s)]_vars
C22_Witness ==
    \E s \in SessionIds :
        /\ Len(upIn[s]) = 2
        /\ \A i \in DOMAIN upIn[s] : upIn[s][i] \in Decoys
        /\ upIn[s][1] # upIn[s][2]
        /\ IsToolCall(upIn[s][2])
        /\ s2c[s] = "listen"
        /\ cl[s] = "open"
        /\ acc[s].prefill_fields = [company_name |-> "Welcome aboard KratorAI"]
        /\ Completes(s) = <<>>

FinalWithPhrase(e) == IsFinalTranscript(e) /\ HasPhrase(e)
C23_State(s) ==
    (cl[s] = "open" /\ s2c[s] = "listen") =>
        Len(Completes(s)) = Len(SelectSeq(upIn[s], FinalWithPhrase))
\* C23: while the client is connected and the handler waits for the next
\* upstream event, it has written as many onboarding.complete messages as it
\* has received finalized transcripts with the phrase: the second one is
\* answered like the first.
C23_OneSignalPerMatch == \A s \in SessionIds : C23_State(s)
C23_Witness ==
    \E s \in SessionIds :
        /\ cl[s] = "open" /\ s2c[s] = "listen"
        /\ Len(Completes(s)) = 2
        /\ Completes(s)[1] # Completes(s)[2]

\* C24 as stated: at most one onboarding.complete in a session
C24_AtMostOnce == \A s \in SessionIds : Len(Completes(s)) <= 1
C24_State(s) ==
    /\ Len(Completes(s)) <= Len(SelectSeq(upIn[s], FinalWithPhrase))
    /\ \A i \in DOMAIN toClient[s] :
          IsComplete(toClient[s][i]) =>
              /\ i > 1
              /\ FinalWithPhrase(toClient[s][i - 1])
              /\ toClient[s][i].final_summary = toClient[s][i - 1].transcript
\* C24 (amended): onboarding.complete is written at most once per finalized
\* transcript with the phrase: a session never holds more of them than it
\* has received such transcripts, and each one directly follows the
\* forwarded transcript it repeats.
C24_AtMostOncePerMatch == \A s \in SessionIds : C24_State(s)
C24_Witness ==
    \E s \in SessionIds :
        /\ Len(SelectSeq(upIn[s], FinalWithPhrase)) = 2
        /\ Len(Completes(s)) = 2
        /\ pc[s] = "closed"

\* --- session.created
IsCreated(m) == m.type = "session.created"
Created(s) == SelectSeq(toClient[s], IsCreated)
C25_State(s) ==
    /\ Len(Created(s)) <= 1
    /\ success[s] = "true" <=> Len(Created(s)) = 1
    /\ Created(s) # <<>> =>
          /\ toClient[s][1] = [type |-> "session.created", sessionid |-> s]
          /\ creates[s] = 1
C25_Step(s) ==
    Len(Created(s))' > Len(Created(s)) =>
        /\ toClient[s] = <<>>
        /\ up'[s] = "open"
        /\ kind[s] # "patched" => s \in sessions'
        /\ pc'[s] = "relay" /\ upIn'[s] = <<>>
\* C25: a session whose setup succeeded has session.created with its id as
\* the first message to the client and has it exactly once, a session whose
\* setup failed never has it; when it is written the upstream connection is
\* open, the session is registered and no upstream event has been read.
C25_CreatedOnceAndFirst ==
    /\ [](\A s \in SessionIds : C25_State(s))
    /\ [][\A s \in SessionIds : C25_Step(s)]_vars
C25_Witness ==
    \E s \in SessionIds :
        /\ kind[s] = "voice"
        /\ success[s] = "true"
        /\ s \in sessions
        /\ Len(toClient[s]) = 3
        /\ IsCreated(toClient[s][1])
        /\ toClient[s][2] = upIn[s][1]
        /\ toClient[s][3].type = "conversation.complete"

\* --- error payloads after setup
IsError(m) == m.type = "error"
Errors(log) == SelectSeq(log, IsError)
C26_State(s) ==
    success[s] = "true" => Len(Errors(toClient[s])) <= Len(Errors(upIn[s]))
C26_Step(s) ==
    (success[s] = "true" /\ Len(Errors(toClient[s]))' > Len(Errors(toClient[s]))) =>
        /\ s2c[s] = "listen"
        /\ Len(upIn'[s]) = Len(upIn[s]) + 1
        /\ IsError(Last(upIn'[s]))
        /\ toClient'[s] = Append(toClient[s], Last(upIn'[s]))
\* C26: once setup has succeeded, a message of type error reaches the client
\* only as the forwarded copy of an upstream event of that type, written in
\* the step that reads the event; whatever ends a loop or the session, the
\* handler writes no error message of its own.
C26_NoErrorAfterSetup ==
    /\ [](\A s \in SessionIds : C26_State(s))
    /\ [][\A s \in SessionIds : C26_Step(s)]_vars
C26_Witness ==
    \E s \in SessionIds :
        /\ kind[s] = "patched"
        /\ pc[s] = "closed"
        /\ upIn[s] = <<UpstreamError, NullItem>>
        /\ toClient[s] = <<SessionCreatedMsg(s), UpstreamError, NullItem>>
        /\ data[s] = ArrayClientEvent

\* --- client to upstream
UpstreamWritable(s) == kind[s] = "voice" /\ s \in sessions /\ up[s] = "open"
ClientRecvStep(s) == nClient'[s] = nClient[s] + 1
ClientRespStep(s) == c2s[s] = "resp" /\ c2s'[s] # "resp"
C27_Step(s) ==
    /\ (ClientRecvStep(s) /\ UpstreamWritable(s)) =>
          LET ev == data'[s] IN
          CASE ev.type = "input_audio_buffer.append" ->
                  /\ toUp'[s] = Append(toUp[s],
                        [type |-> "input_audio_buffer.append",
                         audio |-> IF "audio" \in DOMAIN ev THEN ev.audio ELSE ""])
                  /\ c2s'[s] = "recv"
            [] ev.type = "input_audio_buffer.commit" ->
                  /\ toUp'[s] = Append(toUp[s], [type |-> "input_audio_buffer.commit"])
                  /\ c2s'[s] = "resp"
            [] ev.type = "response.create" ->
                  /\ toUp'[s] = Append(toUp[s], [type |-> "response.create"])
                  /\ c2s'[s] = "recv"
            [] OTHER ->
                  /\ toUp'[s] = toUp[s]
                  /\ c2s'[s] = "recv"
    /\ (ClientRespStep(s) /\ UpstreamWritable(s)) =>
          /\ toUp'[s] = Append(toUp[s], [type |-> "response.create"])
          /\ data[s].type = "input_audio_buffer.commit"
          /\ c2s'[s] = "recv"
    /\ (toUp'[s] # toUp[s] /\ toUp[s] # <<>>) => (ClientRecvStep(s) \/ ClientRespStep(s))
\* C27: with the upstream connection open, reading input_audio_buffer.append
\* writes one append message with the audio of the event, reading
\* input_audio_buffer.commit writes one commit message and the loop's next
\* step writes one response.create, reading response.create writes one
\* response.create, reading any other type writes nothing; after the
\* session configuration nothing else is written upstream.
C27_ClientEventMapping == [][\A s \in SessionIds : C27_Step(s)]_vars
C27_Witness ==
    \E s \in SessionIds :
        /\ kind[s] = "voice"
        /\ Len(toUp[s]) = 4
        /\ toUp[s][2] = [type |-> "input_audio_buffer.append", audio |-> "a2"]
        /\ toUp[s][3] = [type |-> "input_audio_buffer.commit"]
        /\ toUp[s][4] = [type |-> "response.create"]
        /\ nClient[s] = 2

\* C28 as stated: while both connections are open no event ends a loop
C28_NeverFatal ==
    \A s \in SessionIds :
        (pc[s] = "relay" /\ cl[s] = "open" /\ up[s] = "open") =>
            (c2s[s] # "done" /\ s2c[s] # "done")

IsClientMsg(m) ==
    m.type \in {"input_audio_buffer.append", "input_audio_buffer.commit", "response.create"}
ClientMsgs(s) == SelectSeq(toUp[s], IsClientMsg)
C29_State(s) ==
    (c2s[s] = "resp" /\ UpstreamWritable(s)) =>
        /\ ClientMsgs(s) # <<>>
        /\ Last(ClientMsgs(s)) = [type |-> "input_audio_buffer.commit"]
C29_Step(s) ==
    /\ IsPrefix(ClientMsgs(s), ClientMsgs(s)')
    /\ Len(ClientMsgs(s)') <= Len(ClientMsgs(s)) + 1
    /\ ClientRecvStep(s) => c2s[s] = "recv"
    /\ (ClientRecvStep(s) /\ Len(ClientMsgs(s)') > Len(ClientMsgs(s))) =>
          Last(ClientMsgs(s)').type = data'[s].type
    /\ (ClientRespStep(s) /\ UpstreamWritable(s)) =>
          ClientMsgs(s)' = Append(ClientMsgs(s), [type |-> "response.create"])
IsCompletion(m) == m.type \in {"onboarding.complete", "conversation.complete"}
Phase(s) ==
    IF pc[s] = "none" THEN "NONE"
    ELSE IF pc[s] \in {"accepted", "configuring"} THEN "CONNECTING"
    ELSE IF pc[s] = "relay"
    THEN IF SelectSeq(toClient[s], IsCompletion) # <<>> THEN "COMPLETING" ELSE "ACTIVE"
    ELSE "CLOSED"
ChainEdges ==
    {<<"NONE", "CONNECTING">>, <<"CONNECTING", "ACTIVE">>, <<"ACTIVE", "COMPLETING">>,
     <<"ACTIVE", "CLOSED">>, <<"COMPLETING", "CLOSED">>}
\* C30 as stated: a session changes phase only along
\* CONNECTING -> ACTIVE -> (COMPLETING) -> CLOSED
C30_OnlyAlongChain ==
    [][\A s \in SessionIds : Phase(s)' # Phase(s) => <<Phase(s), Phase(s)'>> \in ChainEdges]_vars
C30_State(s) ==
    /\ Phase(s) \in {"ACTIVE", "COMPLETING"} => success[s] = "true"
    /\ Phase(s) = "CLOSED" => (c2s[s] \in {"idle", "done"} /\ s2c[s] \in {"idle", "done"})
    /\ (Phase(s) = "CLOSED" /\ success[s] # "true") => (c2s[s] = "idle" /\ s2c[s] = "idle")
C30_Step(s) ==
    /\ Phase(s)' # Phase(s) =>
          <<Phase(s), Phase(s)'>> \in ChainEdges \cup {<<"CONNECTING", "CLOSED">>}
    /\ (Phase(s) = "CONNECTING" /\ Phase(s)' = "CLOSED") => success'[s] # "true"
    /\ Phase(s) = "CLOSED" =>
          /\ toClient'[s] = toClient[s]
          /\ toUp'[s] = toUp[s]
          /\ upIn'[s] = upIn[s]
          /\ c2s'[s] = c2s[s] /\ s2c'[s] = s2c[s]
          /\ s \in sessions' => s \in sessions
\* C30 (amended): a session changes phase only along
\* CONNECTING -> ACTIVE -> (COMPLETING) -> CLOSED, or from CONNECTING
\* straight to CLOSED when its setup fails. It is ACTIVE or COMPLETING only
\* after a successful setup; once CLOSED both loops have ended or never
\* ran, no message is relayed in either direction and its id is not added
\* to the registry.
C30_Lifecycle ==
    /\ [](\A s \in SessionIds : C30_State(s))
    /\ [][\A s \in SessionIds : C30_Step(s)]_vars
C30_Witness ==
    \E s \in SessionIds :
        /\ kind[s] = "voice"
        /\ pc[s] = "closed"
        /\ SelectSeq(toClient[s], IsCompletion) # <<>>
        /\ Len(upIn[s]) = 2
        /\ ~IsCompletion(Last(toClient[s]))
        /\ s \notin sessions

\* --- tool calls under another name
IsOtherToolCall(e) ==
    /\ e.type = "response.output_item.done"
    /\ "item" \in DOMAIN e
    /\ "mistyped" \notin DOMAIN e
    /\ e.item.type = "function_call"
    /\ e.item.name \notin {"update_profile", "update_onboarding_status"}
    /\ e.item.arguments.parses
C31_Step(s) ==
    /\ (ClassifyStep(s) /\ IsOtherToolCall(cur[s]) /\ cl[s] = "open") =>
          /\ acc'[s] = acc[s]
          /\ toClient'[s] = Append(toClient[s], OnboardingUpdateMsg(acc[s]))
          /\ toUp'[s] = toUp[s]
          /\ s2c'[s] = "ack"
    /\ (s2c[s] = "ack" /\ s2c'[s] # "ack" /\ IsOtherToolCall(cur[s])) =>
          /\ acc'[s] = acc[s]
          /\ toClient'[s] = toClient[s]
          /\ Len(toUp'[s]) = Len(toUp[s]) + 1
          /\ Last(toUp'[s]).type = "conversation.item.create"
          /\ Last(toUp'[s]).item.type = "function_call_output"
          /\ Last(toUp'[s]).item.call_id = cur[s].item.call_id
          /\ s2c'[s] = "listen"
\* C31: a tool call with parsed arguments under a name other than
\* update_profile and update_onboarding_status leaves the state as it was;
\* the handler writes one onboarding.update carrying that state and then one
\* acknowledgement with the call's call_id, and goes back to listening.
C31_OtherToolAcknowledged == [][\A s \in SessionIds : C31_Step(s)]_vars
C31_Witness ==
    \E s \in SessionIds :
        /\ Len(upIn[s]) = 2
        /\ upIn[s][1] = ToolCallEvent(PROFILE_UPDATE_TOOL, "call_1", ArgsText(ProfileArgs))
        /\ IsOtherToolCall(upIn[s][2])
        /\ s2c[s] = "listen"
        /\ acc[s].prefill_fields # InitialOnboardingUpdate.prefill_fields
        /\ Len(Updates(s)) = 2
        /\ Updates(s)[1] = Updates(s)[2]
        /\ AckIds(s) = <<"call_1", "call_8">>

\* --- create_session that fails after connecting
\* C32: once create_session has returned failure, the session has no
\* upstream connection that is not closed: either none was opened or the one
\* that was opened has been closed.
C32_FailedCreateClosesConnection ==
    \A s \in SessionIds :
        success[s] = "false" => up[s] \in {"none", "closed"}

\* --- the client loop after the upstream connection has dropped
UpstreamGone(s) == kind[s] = "voice" /\ pc[s] = "relay" /\ up[s] # "open"
C33_State(s) ==
    UpstreamGone(s) =>
        /\ s \in sessions
        /\ (c2s[s] = "done" => cl[s] # "open")
C33_Step(s) ==
    /\ (UpstreamGone(s) /\ (ClientRecvStep(s) \/ ClientRespStep(s))) =>
          /\ toUp'[s] = toUp[s]
          /\ c2s'[s] \in {"recv", "resp"}
          /\ sessions' = sessions
          /\ pc'[s] = "relay"
    /\ (c2s[s] # "done" /\ c2s'[s] = "done") => cl[s] # "open"
Owned(t) ==
    <<kind[t], pc[t], c2s[t], s2c[t], cur[t], data[t], up[t], cl[t], upIn[t],
      toClient[t], toUp[t], acc[t], nClient[t], nUp[t], creates[t], success[t],
      teardowns[t], removals[t], escaped[t]>>
C34_Step ==
    \E s \in SessionIds :
        \A t \in SessionIds \ {s} :
            /\ Owned(t)' = Owned(t)
            /\ t \in sessions' <=> t \in sessions
C34_State(s) ==
    /\ \A i \in DOMAIN toClient[s] :
          /\ IsCreated(toClient[s][i]) => toClient[s][i].sessionid = s
          /\ IsUpdate(toClient[s][i]) =>
                toClient[s][i] = OnboardingUpdateMsg(Replay(ParsedCallsBefore(s, i)))
    /\ IsPrefix(AckIds(s), ParsedCallIds(s))
    /\ Len(Completes(s)) <= Len(SelectSeq(upIn[s], FinalWithPhrase))
    /\ s \in sessions => (kind[s] = "voice" /\ success[s] = "true")
\* C34: a step of the system changes the state, the logs, the connections
\* and the registry entry of one session only. Every onboarding.update of a
\* session is the result of that session's own tool calls, its
\* acknowledgements carry the call_ids of its own tool calls, its completion
\* signals answer its own transcripts, and closing one session leaves the
\* registry entry of the other in place.
C34_SessionsIsolated ==
    /\ [](\A s \in SessionIds : C34_State(s))
    /\ [][C34_Step]_vars
C34_Witness ==
    /\ kind["s1"] = "patched" /\ kind["s2"] = "patched"
    /\ pc["s1"] = "relay" /\ pc["s2"] = "relay"
    /\ acc["s1"].prefill_fields = [company_name |-> "KratorAI"]
    /\ acc["s2"].prefill_fields = [nickname |-> "Krator Labs"]
    /\ AckIds("s1") = <<"call_1">>
    /\ AckIds("s2") = <<"call_2">>
    /\ Len(Updates("s1")) = 1 /\ Len(Updates("s2")) = 1

\* --- upstream text that is not JSON
InvalidJsonStep(s) == nUp'[s] = nUp[s] + 1 /\ upIn'[s] = upIn[s]
C35_Step(s) ==
    InvalidJsonStep(s) =>
        /\ toClient'[s] = toClient[s]
        /\ s2c[s] = "listen" /\ s2c'[s] = "listen"
        /\ cur'[s] = cur[s] /\ acc'[s] = acc[s]
        /\ toUp'[s] = toUp[s]
        /\ up'[s] = up[s] /\ pc'[s] = pc[s]
C35_State(s) ==
    (kind[s] = "voice" /\ s2c[s] \in {"listen", "classify"}) =>
        /\ Forwarded(s) = upIn[s]
        /\ Len(upIn[s]) <= nUp[s]
\* C35: a message that is not JSON is counted as read and nothing else
\* happens: nothing is written to the client, nothing is classified, and
\* server_to_client keeps listening; the events read before and after it
\* are the ones forwarded, in the order in which they were read.
C35_InvalidJsonDropped ==
    /\ [](\A s \in SessionIds : C35_State(s))
    /\ [][\A s \in SessionIds : C35_Step(s)]_vars
C35_Witness ==
    \E s \in SessionIds :
        /\ kind[s] = "voice"
        /\ nUp[s] = 2
        /\ s2c[s] = "classify"
        /\ upIn[s] = <<ItemCompleted(<<"Should I proceed">>)>>
        /\ toClient[s] = <<SessionCreatedMsg(s), ItemCompleted(<<"Should I proceed">>)>>

\* --- after the registry entry has been removed
Removed(s) == kind[s] = "voice" /\ success[s] = "true" /\ s \notin sessions
C36_State(s) == Removed(s) => up[s] # "open"
C36_Step(s) ==
    Removed(s) =>
        /\ toUp'[s] = toUp[s]
        /\ upIn'[s] = upIn[s]
        /\ (ClientRecvStep(s) \/ ClientRespStep(s)) => c2s'[s] \in {"recv", "resp"}
        /\ (s2c[s] = "start" /\ s2c'[s] # "start") => s2c'[s] = "done"
        /\ s \notin sessions'
\* C36: once the entry of a session that was set up has been removed from
\* the registry, nothing more is written to its upstream connection and no
\* upstream event is read for it; client_to_server reads on and its calls
\* return without raising, a listen that starts then returns at once, and
\* the connection is no longer open.
C36_NothingAfterRemoval ==
    /\ [](\A s \in SessionIds : C36_State(s))
    /\ [][\A s \in SessionIds : C36_Step(s)]_vars
C36_Witness ==
    \E s \in SessionIds :
        /\ Removed(s)
        /\ pc[s] = "relay"
        /\ cleanup.pc = "done"
        /\ cl[s] = "open"
        /\ c2s[s] = "recv"
        /\ s2c[s] = "done"
        /\ nUp[s] = 0
        /\ nClient[s] = 2
        /\ data[s] = [type |-> "input_audio_buffer.commit"]
        /\ Len(toUp[s]) = 1

====
